---- MODULE Spec2Model ----
(***************************************************************************)
(* State-machine model of the simulation core of Project Prometheus:       *)
(* the status engine (core/clock.py), the action system                    *)
(* (models/actions.py) and the turn scheduler (core/engine.py).            *)
(*                                                                         *)
(* Abstractions, all of data no modelled branch reads:                     *)
(*   - agent memory, names, personas and free-text relationship context    *)
(*     are append-only / write-only strings and are left out;              *)
(*   - event_log is kept as the set of the kinds of lines it contains      *)
(*     (the list is append-only, a kind once logged stays logged);         *)
(*   - the durable event logger and the broadcast callback are external.   *)
(***************************************************************************)
EXTENDS Integers, Sequences, FiniteSets, TLC

VARIABLES
    rules,                   \* configs/game_rules.json as loaded at construction
    agents,                  \* world.state.agents : agent_id -> Agent
    day, hour, minute,       \* world.state clock
    max_days,                \* world.state.max_days
    last_agent_action_time,  \* world.state.last_agent_action_time
    engine_running,          \* GameEngine.is_running
    world_running,           \* world.state.is_running
    event_log,               \* world.state.event_log (set of line kinds)
    llm_available,           \* EnhancedLLMService.is_available() = bool(api_key)
    pc,                      \* position of the start_simulation coroutine
    agent_idx,               \* index of the running `for agent_id in agent_ids`
    turn_counts,             \* active_agents_this_turn, successful_actions_this_turn
    phases,                  \* phases the running tick has gone through
    attempts,                \* calls of _execute_agent_action in the running while loop
    last_result,             \* outcome of the latest _execute_agent_action / action call
    ticks,                   \* number of _execute_turn calls begun
    rule_enabled,            \* rule_engine.rules[rule_id].enabled
    rule_history,            \* rule_engine.rule_history
    rule_call,               \* trace of the latest RuleEngine.execute_rules call
    map_items,               \* world.state.game_map.items, in insertion order
    goal_eval,               \* the latest evaluate_and_select_goal calls
    loops                    \* the start_simulation tasks the gateway has created

vars == <<rules, agents, day, hour, minute, max_days, last_agent_action_time,
          engine_running, world_running, event_log, llm_available, pc,
          agent_idx, turn_counts, phases, attempts, last_result, ticks,
          rule_enabled, rule_history, rule_call, map_items, goal_eval,
          loops>>

\* the state of the rule engine, the map's items and the goal system
subsystem_vars ==
    <<rule_enabled, rule_history, rule_call, map_items, goal_eval, loops>>

----------------------------------------------------------------------------
(* Bounds of the model *)

MaxTicks == 2

MaxAttempts == 3

----------------------------------------------------------------------------
(* Arithmetic helpers: Python's max, min, abs and int() (truncation) *)

Max(a, b) == IF a >= b THEN a ELSE b

Min(a, b) == IF a <= b THEN a ELSE b

Abs(a) == IF a >= 0 THEN a ELSE -a

\* int(n / d) for d > 0: truncation toward zero
TruncDiv(n, d) == IF n >= 0 THEN n \div d ELSE -((-n) \div d)

\* Python's n // d for d > 0: floor division
FloorDiv(n, d) == n \div d

----------------------------------------------------------------------------
(* Entity model *)

\* insertion order of world.state.agents: guards first, then prisoners
AgentOrder == <<"guard_001", "prisoner_001", "prisoner_002">>

AgentIds == {AgentOrder[i] : i \in 1..Len(AgentOrder)}

RoleOf(id) == IF id = "guard_001" THEN "Guard" ELSE "Prisoner"

\* the sort key of _execute_turn: (0 if x.startswith('guard') else 1, x)
StartsWithGuard(id) == id = "guard_001"

LexRank(id) == CHOOSE i \in 1..Len(AgentOrder) : AgentOrder[i] = id

\* a sort key that orders the ids downwards and ignores the guard prefix
SortKeyDescending(a, b) == LexRank(a) > LexRank(b)

SortKeyLess(a, b) ==
    LET ka == IF StartsWithGuard(a) THEN 0 ELSE 1
        kb == IF StartsWithGuard(b) THEN 0 ELSE 1
    IN  ka < kb \/ (ka = kb /\ LexRank(a) < LexRank(b))

\* agent_ids after agent_ids.sort(key=...)
SortedAgentIds ==
    CHOOSE s \in [1..Cardinality(AgentIds) -> AgentIds] :
        /\ \A i, j \in DOMAIN s : i < j => SortKeyLess(s[i], s[j])
        /\ {s[i] : i \in DOMAIN s} = AgentIds

Item(id, type) == [item_id |-> id, item_type |-> type]

\* Agent(...) with the defaults of models/schemas.py
NewAgent(id, pos, inv, score) ==
    [ role          |-> RoleOf(id),
      hp            |-> 100,
      sanity        |-> 100,
      hunger        |-> 0,
      thirst        |-> 0,
      strength      |-> 100,
      action_points |-> 3,
      position      |-> pos,
      inventory     |-> inv,
      status_tags   |-> << >>,
      logic         |-> 50,
      resilience    |-> 50,
      relationships |-> [o \in AgentIds \ {id} |-> score] ]

----------------------------------------------------------------------------
(* Status engine: core/clock.py *)

Append1(s, cond, e) == IF cond THEN Append(s, e) ELSE s

\* TimeController._update_status_tags up to the "deceased" append
update_status_tags(a) ==
    LET t0 == << >>
        t1 == IF a.hunger > 90 THEN Append(t0, "starving")
              ELSE IF a.hunger > 80 THEN Append(t0, "very_hungry")
              ELSE IF a.hunger > 60 THEN Append(t0, "hungry") ELSE t0
        t2 == IF a.thirst > 85 THEN Append(t1, "dehydrated")
              ELSE IF a.thirst > 75 THEN Append(t1, "very_thirsty")
              ELSE IF a.thirst > 55 THEN Append(t1, "thirsty") ELSE t1
        t3 == IF a.hp < 20 THEN Append(t2, "critical")
              ELSE IF a.hp < 40 THEN Append(t2, "injured")
              ELSE IF a.hp < 60 THEN Append(t2, "wounded") ELSE t2
        t4 == IF a.sanity < 20 THEN Append(t3, "unhinged")
              ELSE IF a.sanity < 40 THEN Append(t3, "unstable")
              ELSE IF a.sanity < 60 THEN Append(t3, "stressed") ELSE t3
    IN  Append1(t4, a.hp <= 0, "deceased")

\* _update_status_tags with world_state bound: the call returns
UpdateStatusTagsReturns(a) == FALSE

\* _update_status_tags reads the unbound name world_state in its death
\* branch (clock.py:120): the call raises NameError exactly when hp <= 0
UpdateStatusTagsRaises(a) == a.hp <= 0

\* int(hp_penalty) of _apply_hourly_changes, in exact arithmetic:
\* min(15, e^2/40) + min(20, t^2/30) over the common denominator 120
\* a penalty whose hunger damage begins above 60 instead of above 80
HpPenaltyFromSixty(hunger, thirst) ==
    LET e  == hunger - 60
        t  == thirst - 75
        hd == IF hunger > 60 THEN Min(15 * 120, 3 * e * e) ELSE 0
        td == IF thirst > 75 THEN Min(20 * 120, 4 * t * t) ELSE 0
    IN  (hd + td) \div 120

HpPenalty(hunger, thirst) ==
    LET e  == hunger - 80
        t  == thirst - 75
        hd == IF hunger > 80 THEN Min(15 * 120, 3 * e * e) ELSE 0
        td == IF thirst > 75 THEN Min(20 * 120, 4 * t * t) ELSE 0
    IN  (hd + td) \div 120

NegativeTags == {"hungry", "thirsty", "injured", "exhausted"}

SanityPenalty(r, tags) ==
    Cardinality({i \in DOMAIN tags : tags[i] \in NegativeTags})
        * r.sanity_penalty_per_bad_tag

\* agent.action_points = min(3, 3 - max(0, (100 - agent.hp) // 25))
ActionPointsFor(hp) == Min(3, 3 - Max(0, FloorDiv(100 - hp, 25)))

\* _apply_hourly_changes up to and including _update_status_tags
DecayedAgent(r, a) ==
    LET hunger == Min(100, a.hunger + r.hunger_increase_per_hour)
        thirst == Min(100, a.thirst + r.thirst_increase_per_hour)
        pen    == HpPenalty(hunger, thirst)
        hp     == IF pen > 0 THEN Max(0, a.hp - pen) ELSE a.hp
        sanity == Max(0, a.sanity - SanityPenalty(r, a.status_tags))
        b      == [a EXCEPT !.hunger = hunger, !.thirst = thirst,
                            !.hp = hp, !.sanity = sanity]
    IN  [b EXCEPT !.status_tags = update_status_tags(b)]

\* _apply_hourly_changes: the action points are reset only when
\* _update_status_tags returns
apply_hourly_changes(r, a) ==
    LET b == DecayedAgent(r, a)
    IN  IF UpdateStatusTagsRaises(b) THEN b
        ELSE [b EXCEPT !.action_points = ActionPointsFor(b.hp)]

\* the loop of advance_time over world_state.agents.values(), in insertion
\* order; it stops at the first agent whose update raises
\* "death" in the log stands for the event_logger.log_event(event_type=
\* "death") and the "has died" line of lines 121-132, which follow the read
\* of world_state at line 120: they are written for every agent whose
\* health is 0 or less when the loop has gone through all agents
RECURSIVE AdvanceAgents(_, _, _)
AdvanceAgents(r, ag, i) ==
    IF i > Len(AgentOrder)
    THEN [agents |-> ag, raised |-> FALSE,
          log |-> IF \E o \in DOMAIN ag : ag[o].hp <= 0
                  THEN {"death"} ELSE {}]
    ELSE LET id == AgentOrder[i]
             b  == apply_hourly_changes(r, ag[id])
             ag2 == [ag EXCEPT ![id] = b]
         IN  IF UpdateStatusTagsRaises(b)
             THEN [agents |-> ag2, raised |-> TRUE, log |-> {}]
             ELSE AdvanceAgents(r, ag2, i + 1)

----------------------------------------------------------------------------
(* Action system: models/actions.py *)

ActionKinds ==
    {"do_nothing", "move", "speak", "attack", "use_item", "give_item",
     "announce_rule", "patrol_inspect", "enforce_punishment", "assign_task",
     "emergency_assembly", "steal_item", "form_alliance", "craft_weapon",
     "spread_rumor", "dig_tunnel"}

GuardKinds == {"announce_rule", "patrol_inspect", "enforce_punishment",
               "assign_task", "emergency_assembly"}

PrisonerKinds == {"steal_item", "form_alliance", "craft_weapon",
                  "spread_rumor", "dig_tunnel"}

\* the ap_cost each action class passes to BaseAction.__init__
ap_cost(kind) ==
    CASE kind \in {"do_nothing", "move", "speak", "use_item", "give_item",
                   "spread_rumor", "assign_task"} -> 1
      [] kind \in {"attack", "announce_rule", "patrol_inspect",
                   "enforce_punishment", "steal_item", "form_alliance"} -> 2
      [] kind \in {"craft_weapon", "emergency_assembly", "dig_tunnel"} -> 3

\* a decision {action_type, parameters}; absent parameters are "none" / << >>
Decision(kind, target, item, xy, ptype, text) ==
    [action_type |-> kind, target_id |-> target, item_id |-> item,
     xy |-> xy, punishment_type |-> ptype, text |-> text]

NoItem == <<"none", "none", 0>>

Plain(kind) == Decision(kind, "none", NoItem, << >>, "none", "none")

ActionResult(ok, raised, ag) ==
    [success |-> ok, raised |-> raised, agents |-> ag]

Distance(ag, a, b) ==
    Abs(ag[a].position[1] - ag[b].position[1])
      + Abs(ag[a].position[2] - ag[b].position[2])

\* `not target_id or target_id not in world_state.agents`
InvalidTarget(ag, t) == t = "none" \/ t \notin DOMAIN ag

\* SpendAP charging one point more than the declared cost
SpendAPOneMore(ag, id, kind) ==
    [ag EXCEPT ![id].action_points = @ - (ap_cost(kind) + 1)]

\* agent.action_points -= self.ap_cost
SpendAP(ag, id, kind) ==
    [ag EXCEPT ![id].action_points = @ - ap_cost(kind)]

\* LowerScore without the max(0, ...) clamp
LowerScoreUnclamped(ag, a, b, d) ==
    IF b \in DOMAIN ag[a].relationships
    THEN [ag EXCEPT ![a].relationships[b] = @ - d] ELSE ag

\* relationships[b].score = max(0, score - d), when a has an entry for b
LowerScore(ag, a, b, d) ==
    IF b \in DOMAIN ag[a].relationships
    THEN [ag EXCEPT ![a].relationships[b] = Max(0, @ - d)] ELSE ag

\* relationships[b].score = min(100, score + d), when a has an entry for b
RaiseScore(ag, a, b, d) ==
    IF b \in DOMAIN ag[a].relationships
    THEN [ag EXCEPT ![a].relationships[b] = Min(100, @ + d)] ELSE ag

HasItemId(inv, iid) == \E i \in DOMAIN inv : inv[i].item_id = iid

FirstIndex(inv, iid) ==
    CHOOSE i \in DOMAIN inv :
        inv[i].item_id = iid /\ \A j \in 1..(i - 1) : inv[j].item_id /= iid

\* list.remove(inv[i])
RemoveAt(inv, i) == SubSeq(inv, 1, i - 1) \o SubSeq(inv, i + 1, Len(inv))

HasType(inv, types) == \E i \in DOMAIN inv : inv[i].item_type \in types

\* BaseAction.can_execute and its overrides
\* a validation that tests the action points and the materials but not the
\* role
CanExecuteNoRole(ag, id, d) ==
    LET a    == ag[id]
        kind == d.action_type
        ap   == a.action_points >= ap_cost(kind)
    IN  CASE kind = "craft_weapon" ->
                 ap /\ HasType(a.inventory, {"spoon", "bedsheet", "soap"})
          [] kind = "dig_tunnel" ->
                 ap /\ HasType(a.inventory, {"spoon", "toolbox"})
          [] OTHER -> ap

can_execute(ag, id, d) ==
    LET a    == ag[id]
        kind == d.action_type
        ap   == a.action_points >= ap_cost(kind)
    IN  CASE kind \in {"announce_rule", "patrol_inspect", "enforce_punishment",
                       "assign_task", "emergency_assembly"} ->
                 a.role = "Guard" /\ ap
          [] kind \in {"steal_item", "form_alliance", "spread_rumor"} ->
                 a.role = "Prisoner" /\ ap
          [] kind = "craft_weapon" ->
                 a.role = "Prisoner" /\ ap
                   /\ HasType(a.inventory, {"spoon", "bedsheet", "soap"})
          [] kind = "dig_tunnel" ->
                 a.role = "Prisoner" /\ ap
                   /\ HasType(a.inventory, {"spoon", "toolbox"})
          [] OTHER -> ap

DoNothingAction(ag, id) == ActionResult(TRUE, FALSE, SpendAP(ag, id, "do_nothing"))

\* 8 if d > 0 else -8 if d < 0 else 0
Step8(d) == IF d > 0 THEN 8 ELSE IF d < 0 THEN -8 ELSE 0

\* Clamp without the upper bound of the map
ClampLowOnly(v, n) == Max(0, v)

\* max(0, min(v, n - 1))
Clamp(v, n) == Max(0, Min(v, n - 1))

\* MoveRedirect that keeps the requested target
MoveRedirectNone(cur, tgt) == tgt

\* MoveAction.execute lines 71-106: redirect a target beyond 8 steps
MoveRedirect(cur, tgt) ==
    LET dx == tgt[1] - cur[1]
        dy == tgt[2] - cur[2]
        m  == Abs(dx) + Abs(dy)
        ox == TruncDiv(8 * dx, m)
        oy == TruncDiv(8 * dy, m)
    IN  IF m <= 8 THEN tgt
        ELSE IF Abs(ox) + Abs(oy) > 8
             THEN IF Abs(dx) >= Abs(dy) THEN <<cur[1] + Step8(dx), cur[2]>>
                  ELSE <<cur[1], cur[2] + Step8(dy)>>
             ELSE <<cur[1] + ox, cur[2] + oy>>

\* MoveAction.execute lines 108-132: clamp to the map, re-limit to 8 steps
MoveClamp(r, cur, tgt) ==
    LET w  == r.map_size[1]
        h  == r.map_size[2]
        c  == <<Clamp(tgt[1], w), Clamp(tgt[2], h)>>
        dx == c[1] - cur[1]
        dy == c[2] - cur[2]
        a  == IF Abs(dx) + Abs(dy) > 8
              THEN IF Abs(dx) >= Abs(dy) THEN <<cur[1] + Step8(dx), cur[2]>>
                   ELSE <<cur[1], cur[2] + Step8(dy)>>
              ELSE c
    IN  IF c = tgt THEN tgt
        ELSE IF Abs(dx) + Abs(dy) > 8
             THEN <<Clamp(a[1], w), Clamp(a[2], h)>>
             ELSE c

MoveDestination(r, cur, tgt) == MoveClamp(r, cur, MoveRedirect(cur, tgt))

MoveAction(r, ag, id, d) ==
    IF d.xy = << >> THEN ActionResult(FALSE, FALSE, ag)
    ELSE LET dest == MoveDestination(r, ag[id].position, d.xy)
         IN  IF \E o \in DOMAIN ag : o /= id /\ ag[o].position = dest
             THEN ActionResult(FALSE, FALSE, ag)
             ELSE ActionResult(TRUE, FALSE,
                    SpendAP([ag EXCEPT ![id].position = dest], id, "move"))

SpeakAction(ag, id, d) ==
    IF InvalidTarget(ag, d.target_id) THEN ActionResult(FALSE, FALSE, ag)
    ELSE IF Distance(ag, id, d.target_id) > 2 THEN ActionResult(FALSE, FALSE, ag)
    ELSE ActionResult(TRUE, FALSE, SpendAP(ag, id, "speak"))

\* damage = max(1, base + int(strength_diff * modifier) + randint(range))
\* a damage below zero: the attack gives the target health
AttackDamageHeals(r, attacker, target, roll) == -5

AttackDamage(r, attacker, target, roll) ==
    Max(1, r.base_damage
           + TruncDiv((attacker.strength - target.strength) * r.strength_modifier[1],
                      r.strength_modifier[2])
           + roll)

\* AttackAction lowering both scores by the same amount
AttackActionEvenScores(r, ag, id, d, roll) ==
    IF InvalidTarget(ag, d.target_id) THEN ActionResult(FALSE, FALSE, ag)
    ELSE IF Distance(ag, id, d.target_id) > 2 THEN ActionResult(FALSE, FALSE, ag)
    ELSE LET t   == d.target_id
             dmg == AttackDamage(r, ag[id], ag[t], roll)
             a1  == [ag EXCEPT ![t].hp = Max(0, @ - dmg)]
             a2  == [a1 EXCEPT ![id].hp = Max(0, @ - r.recoil_damage)]
             a3  == SpendAP(a2, id, "attack")
             a4  == LowerScore(a3, id, t, 10)
             a5  == LowerScore(a4, t, id, 10)
         IN  ActionResult(TRUE, FALSE, a5)

AttackAction(r, ag, id, d, roll) ==
    IF InvalidTarget(ag, d.target_id) THEN ActionResult(FALSE, FALSE, ag)
    ELSE IF Distance(ag, id, d.target_id) > 2 THEN ActionResult(FALSE, FALSE, ag)
    ELSE LET t   == d.target_id
             dmg == AttackDamage(r, ag[id], ag[t], roll)
             a1  == [ag EXCEPT ![t].hp = Max(0, @ - dmg)]
             a2  == [a1 EXCEPT ![id].hp = Max(0, @ - r.recoil_damage)]
             a3  == SpendAP(a2, id, "attack")
             a4  == LowerScore(a3, id, t, 10)
             a5  == LowerScore(a4, t, id, 25)
         IN  ActionResult(TRUE, FALSE, a5)

UseItemAction(ag, id, d) ==
    LET inv == ag[id].inventory
    IN  IF ~HasItemId(inv, d.item_id) THEN ActionResult(FALSE, FALSE, ag)
        ELSE LET i    == FirstIndex(inv, d.item_id)
                 type == inv[i].item_type
             IN  CASE type = "food" ->
                        ActionResult(TRUE, FALSE, SpendAP(
                          [ag EXCEPT ![id].hunger = Max(0, @ - 50),
                                     ![id].inventory = RemoveAt(inv, i)],
                          id, "use_item"))
                   [] type = "water" ->
                        ActionResult(TRUE, FALSE, SpendAP(
                          [ag EXCEPT ![id].thirst = Max(0, @ - 40),
                                     ![id].inventory = RemoveAt(inv, i)],
                          id, "use_item"))
                   [] type = "book" ->
                        ActionResult(TRUE, FALSE, SpendAP(
                          [ag EXCEPT ![id].sanity = Min(100, @ + 10)],
                          id, "use_item"))
                   [] OTHER -> ActionResult(FALSE, FALSE, ag)

\* a give that appends the item to the target without removing it from the
\* giver
GiveItemCopies(ag, id, d) ==
    IF InvalidTarget(ag, d.target_id) THEN ActionResult(FALSE, FALSE, ag)
    ELSE IF Distance(ag, id, d.target_id) > 2 THEN ActionResult(FALSE, FALSE, ag)
    ELSE IF ~HasItemId(ag[id].inventory, d.item_id) THEN ActionResult(FALSE, FALSE, ag)
    ELSE LET t  == d.target_id
             i  == FirstIndex(ag[id].inventory, d.item_id)
             it == ag[id].inventory[i]
             a1 == SpendAP(ag, id, "give_item")
             a3 == [a1 EXCEPT ![t].inventory = Append(@, it)]
             a4 == RaiseScore(a3, id, t, 5)
             a5 == RaiseScore(a4, t, id, 10)
         IN  ActionResult(TRUE, FALSE, a5)

GiveItemAction(ag, id, d) ==
    IF InvalidTarget(ag, d.target_id) THEN ActionResult(FALSE, FALSE, ag)
    ELSE IF Distance(ag, id, d.target_id) > 2 THEN ActionResult(FALSE, FALSE, ag)
    ELSE IF ~HasItemId(ag[id].inventory, d.item_id) THEN ActionResult(FALSE, FALSE, ag)
    ELSE LET t  == d.target_id
             i  == FirstIndex(ag[id].inventory, d.item_id)
             it == ag[id].inventory[i]
             a1 == SpendAP(ag, id, "give_item")
             a2 == [a1 EXCEPT ![id].inventory = RemoveAt(@, i)]
             a3 == [a2 EXCEPT ![t].inventory = Append(@, it)]
             a4 == RaiseScore(a3, id, t, 5)
             a5 == RaiseScore(a4, t, id, 10)
         IN  ActionResult(TRUE, FALSE, a5)

\* the prisoners, in the iteration order of world_state.agents.items()
PrisonerSeq(ag) == SelectSeq(AgentOrder, LAMBDA o : ag[o].role = "Prisoner")

RECURSIVE ForEach(_, _, _, _)
\* for o in seq: ag = F(ag, o)
ForEach(F(_, _), ag, seq, i) ==
    IF i > Len(seq) THEN ag ELSE ForEach(F, F(ag, seq[i]), seq, i + 1)

AnnounceRuleAction(ag, id, d) ==
    IF d.text = "" THEN ActionResult(FALSE, FALSE, ag)
    ELSE LET a1 == SpendAP(ag, id, "announce_rule")
             Each(g, o) == LowerScore(g, o, id, 10)
         IN  ActionResult(TRUE, FALSE, ForEach(Each, a1, PrisonerSeq(a1), 1))

PatrolInspectAction(ag, id, d) ==
    IF InvalidTarget(ag, d.target_id) THEN ActionResult(FALSE, FALSE, ag)
    ELSE IF Distance(ag, id, d.target_id) > 2 THEN ActionResult(FALSE, FALSE, ag)
    ELSE LET t  == d.target_id
             a1 == SpendAP(ag, id, "patrol_inspect")
             a2 == LowerScore(a1, id, t, 5)
             a3 == LowerScore(a2, t, id, 15)
         IN  ActionResult(TRUE, FALSE, a3)

EnforcePunishmentAction(ag, id, d) ==
    IF InvalidTarget(ag, d.target_id) THEN ActionResult(FALSE, FALSE, ag)
    ELSE IF ag[d.target_id].role /= "Prisoner" THEN ActionResult(FALSE, FALSE, ag)
    ELSE IF Distance(ag, id, d.target_id) > 2 THEN ActionResult(FALSE, FALSE, ag)
    ELSE LET t  == d.target_id
             \* punishment_type defaults to 'isolation' when absent
             p  == IF d.punishment_type = "none" THEN "isolation"
                   ELSE d.punishment_type
             a1 == SpendAP(ag, id, "enforce_punishment")
             a2 == CASE p = "isolation" ->
                          [a1 EXCEPT ![t].sanity = Max(0, @ - 20)]
                     [] p = "labor" ->
                          [a1 EXCEPT ![t].strength = Max(0, @ - 15)]
                     [] p = "restriction" ->
                          [a1 EXCEPT ![t].action_points = Max(0, @ - 1)]
                     [] OTHER -> a1
             a3 == LowerScore(a2, t, id, 25)
             a4 == LowerScore(a3, id, t, 10)
         IN  ActionResult(TRUE, FALSE, a4)

\* success_rate = logic * 0.8 + random() * 0.4 > 0.5 with random() in [0, 1):
\* for an integer logic the draw never decides, the test is logic >= 1
StealSucceeds(a) == a.logic * 8 > 5

StealItemAction(ag, id, d, pick) ==
    IF InvalidTarget(ag, d.target_id) THEN ActionResult(FALSE, FALSE, ag)
    ELSE IF Distance(ag, id, d.target_id) > 1 THEN ActionResult(FALSE, FALSE, ag)
    ELSE IF ag[d.target_id].inventory = << >> THEN ActionResult(FALSE, FALSE, ag)
    ELSE LET t  == d.target_id
             a1 == SpendAP(ag, id, "steal_item")
             \* random.choice(target_agent.inventory)
             i  == ((pick - 1) % Len(a1[t].inventory)) + 1
             it == a1[t].inventory[i]
         IN  IF StealSucceeds(a1[id])
             THEN LET a2 == [a1 EXCEPT ![t].inventory = RemoveAt(@, i)]
                      a3 == [a2 EXCEPT ![id].inventory = Append(@, it)]
                  IN  ActionResult(TRUE, FALSE, LowerScore(a3, t, id, 30))
             ELSE ActionResult(TRUE, FALSE, LowerScore(a1, t, id, 40))

FormAllianceAction(ag, id, d) ==
    IF InvalidTarget(ag, d.target_id) THEN ActionResult(FALSE, FALSE, ag)
    ELSE IF ag[d.target_id].role /= "Prisoner" THEN ActionResult(FALSE, FALSE, ag)
    ELSE IF Distance(ag, id, d.target_id) > 2 THEN ActionResult(FALSE, FALSE, ag)
    ELSE LET t  == d.target_id
             a1 == SpendAP(ag, id, "form_alliance")
             a2 == RaiseScore(a1, t, id, 30)
             a3 == RaiseScore(a2, id, t, 30)
         IN  ActionResult(TRUE, FALSE, a3)

CraftMaterials == {"spoon", "bedsheet", "soap"}

\* success_rate = (logic + resilience) * 0.6 + random() * 0.4 > 0.6;
\* positive is whether the draw of random() is above 0
CraftSucceeds(a, positive) ==
    LET s == a.logic + a.resilience
    IN  s >= 2 \/ (s = 1 /\ positive)

CraftWeaponAction(ag, id, d, positive, hr) ==
    LET inv == ag[id].inventory
    IN  IF ~HasType(inv, CraftMaterials) THEN ActionResult(FALSE, FALSE, ag)
        ELSE LET i  == CHOOSE k \in DOMAIN inv :
                          /\ inv[k].item_type \in CraftMaterials
                          /\ \A j \in 1..(k - 1) : inv[j].item_type \notin CraftMaterials
                 a1 == SpendAP(ag, id, "craft_weapon")
                 a2 == [a1 EXCEPT ![id].inventory = RemoveAt(@, i)]
                 a3 == IF CraftSucceeds(ag[id], positive)
                       THEN [a2 EXCEPT ![id].inventory =
                               Append(@, Item(<<"shiv", id, hr>>, "shiv"))]
                       ELSE a2
             IN  ActionResult(TRUE, FALSE, a3)

SpreadRumorAction(ag, id, d) ==
    LET a1 == SpendAP(ag, id, "spread_rumor")
        Each(g, o) ==
            IF o /= id /\ Distance(g, id, o) <= 5
            THEN CASE d.text = "guard"  -> [g EXCEPT ![o].sanity = Max(0, @ - 5)]
                   [] d.text = "escape" -> [g EXCEPT ![o].sanity = Min(100, @ + 5)]
                   [] OTHER -> g
            ELSE g
    IN  ActionResult(TRUE, FALSE, ForEach(Each, a1, PrisonerSeq(a1), 1))

AssignTaskAction(ag, id, d) ==
    IF InvalidTarget(ag, d.target_id) THEN ActionResult(FALSE, FALSE, ag)
    ELSE IF ag[d.target_id].role /= "Prisoner" THEN ActionResult(FALSE, FALSE, ag)
    ELSE LET t  == d.target_id
             a1 == SpendAP(ag, id, "assign_task")
             a2 == LowerScore(a1, t, id, 3)
             a3 == RaiseScore(a2, id, t, 2)
             a4 == [a3 EXCEPT ![t].sanity = Max(0, @ - 5)]
         IN  ActionResult(TRUE, FALSE, a4)

EmergencyAssemblyAction(ag, id, d) ==
    LET a1 == SpendAP(ag, id, "emergency_assembly")
        Each(g, o) ==
            LowerScore([g EXCEPT ![o].sanity = Max(0, @ - 15),
                                 ![o].strength = Max(0, @ - 5)], o, id, 8)
    IN  ActionResult(TRUE, FALSE, ForEach(Each, a1, PrisonerSeq(a1), 1))

\* DigTunnelAction.execute deducts the action points (line 1048) and then
\* reads agent.personality_traits (line 1051), an attribute Agent does not
\* have: every call raises AttributeError after the deduction
DigTunnelAction(ag, id, d) ==
    ActionResult(FALSE, TRUE, SpendAP(ag, id, "dig_tunnel"))

\* ACTION_REGISTRY[action_type]().execute(world_state, agent_id, **kwargs);
\* rnd holds the draws of the random module
execute(r, ag, id, d, rnd, hr) ==
    LET kind == d.action_type
    IN  CASE kind = "do_nothing"         -> DoNothingAction(ag, id)
          [] kind = "move"               -> MoveAction(r, ag, id, d)
          [] kind = "speak"              -> SpeakAction(ag, id, d)
          [] kind = "attack"             -> AttackAction(r, ag, id, d, rnd.roll)
          [] kind = "use_item"           -> UseItemAction(ag, id, d)
          [] kind = "give_item"          -> GiveItemAction(ag, id, d)
          [] kind = "announce_rule"      -> AnnounceRuleAction(ag, id, d)
          [] kind = "patrol_inspect"     -> PatrolInspectAction(ag, id, d)
          [] kind = "enforce_punishment" -> EnforcePunishmentAction(ag, id, d)
          [] kind = "assign_task"        -> AssignTaskAction(ag, id, d)
          [] kind = "emergency_assembly" -> EmergencyAssemblyAction(ag, id, d)
          [] kind = "steal_item"         -> StealItemAction(ag, id, d, rnd.pick)
          [] kind = "form_alliance"      -> FormAllianceAction(ag, id, d)
          [] kind = "craft_weapon"       -> CraftWeaponAction(ag, id, d, rnd.positive, hr)
          [] kind = "spread_rumor"       -> SpreadRumorAction(ag, id, d)
          [] kind = "dig_tunnel"         -> DigTunnelAction(ag, id, d)

----------------------------------------------------------------------------
(* Turn scheduler: core/engine.py *)

\* what the decision boundary did for one call of _execute_agent_action
DecisionSources == {"unavailable", "raised", "empty", "decision"}

\* the messages of the ActionResults that carry the text "LLM ERROR":
\* the skip result says "LLM failed for ... - agent skipped turn" and the
\* actions have their own messages, so no result message contains it
LLMErrorMessages == {}

SkipMessage == "LLM failed - agent skipped turn"

NoResult ==
    [agent |-> "none", source |-> "none", action_type |-> "none",
     validated |-> FALSE, executed |-> FALSE, raised |-> FALSE,
     success |-> FALSE, message |-> "none", ap_before |-> 0, hp_before |-> 0,
     decision |-> Plain("none"), roll |-> 0]

\* GameEngine._execute_agent_action: the world after the call, the lines
\* appended to event_log and the ActionResult returned
execute_agent_action(r, ag, id, src, d, rnd, hr) ==
    LET base == [NoResult EXCEPT !.agent = id, !.source = src,
                                 !.ap_before = ag[id].action_points,
                                 !.hp_before = ag[id].hp]
        \* lines 195-199: log the LLM ERROR line, return success with no action
        Skip(world, lines, res) ==
            [agents |-> world, log |-> lines \cup {"llm_error_skip"},
             result |-> [res EXCEPT !.success = TRUE, !.message = SkipMessage]]
    IN  CASE src = "unavailable" -> Skip(ag, {"llm_unavailable"}, base)
          [] src = "raised"      -> Skip(ag, {"llm_exception"}, base)
          [] src = "empty"       -> Skip(ag, {"llm_empty"}, base)
          [] src = "decision" ->
               LET b == [base EXCEPT !.action_type = d.action_type,
                                     !.decision = d, !.roll = rnd.roll]
               IN  IF ~can_execute(ag, id, d)
                   THEN Skip(ag, {"failed_validation"}, b)
                   ELSE LET res == execute(r, ag, id, d, rnd, hr)
                            e   == [b EXCEPT !.validated = TRUE, !.executed = TRUE]
                        IN  IF res.raised
                            THEN Skip(res.agents, {"llm_exception"},
                                      [e EXCEPT !.raised = TRUE])
                            ELSE [agents |-> res.agents,
                                  log |-> IF res.success
                                          THEN {"action", "performed"} ELSE {},
                                  result |-> [e EXCEPT !.success = res.success,
                                                       !.message = d.action_type]]

\* the hours since the start of day 1
SimHours(d, h) == (d - 1) * 24 + h

\* GameEngine._should_stop_experiment: the reason to stop, or "none"
\* a stopping check that leaves out the `day > max_days` test
ShouldStopNoDayLimit(ag, d, h, maxd, last) ==
    IF \A id \in DOMAIN ag : ag[id].hp <= 0 THEN "ended_all_dead"
    ELSE IF SimHours(d, h) - last > 24 THEN "ended_stall"
    ELSE "none"

should_stop_experiment(ag, d, h, maxd, last) ==
    IF d > maxd THEN "ended_max_days"
    ELSE IF \A id \in DOMAIN ag : ag[id].hp <= 0 THEN "ended_all_dead"
    ELSE IF SimHours(d, h) - last > 24 THEN "ended_stall"
    ELSE "none"

\* first index j >= i of agent_ids whose agent passes `agent.hp <= 0:
\* continue` and enters `while agent.action_points > 0`; the number of
\* agents that pass the hp test on the way is counted as active
RECURSIVE NextActor(_, _)
NextActor(ag, i) ==
    IF i > Len(SortedAgentIds) THEN [idx |-> i, active |-> 0]
    ELSE LET a == ag[SortedAgentIds[i]]
         IN  IF a.hp <= 0 THEN NextActor(ag, i + 1)
             ELSE IF a.action_points > 0 THEN [idx |-> i, active |-> 1]
             ELSE LET n == NextActor(ag, i + 1)
                  IN  [idx |-> n.idx, active |-> n.active + 1]

----------------------------------------------------------------------------
(* Inputs: configurations, initial worlds, decisions, random draws *)

\* configs/game_rules.json is read at construction (clock.py:14,
\* world.py:28, actions.py:249); the file is an input of the program, two
\* settings of it are explored
RuleConfigs ==
    { [ hunger_increase_per_hour   |-> 3,
        thirst_increase_per_hour   |-> 4,
        sanity_penalty_per_bad_tag |-> 2,
        base_damage                |-> 10,
        strength_modifier          |-> <<1, 10>>,
        random_damage_range        |-> <<0, 1>>,
        recoil_damage              |-> 2,
        default_relationship_score |-> 50,
        map_size                   |-> <<9, 16>> ],
      [ hunger_increase_per_hour   |-> 10,
        thirst_increase_per_hour   |-> 15,
        sanity_penalty_per_bad_tag |-> 5,
        base_damage                |-> 1,
        strength_modifier          |-> <<1, 1>>,
        random_damage_range        |-> <<-1, 0>>,
        recoil_damage              |-> 5,
        default_relationship_score |-> 20,
        map_size                   |-> <<9, 16>> ] }

\* a configuration whose recoil kills whoever attacks
LethalRules ==
    [ hunger_increase_per_hour   |-> 3,
      thirst_increase_per_hour   |-> 4,
      sanity_penalty_per_bad_tag |-> 2,
      base_damage                |-> 10,
      strength_modifier          |-> <<1, 10>>,
      random_damage_range        |-> <<0, 0>>,
      recoil_damage              |-> 100,
      default_relationship_score |-> 50,
      map_size                   |-> <<9, 16>> ]

\* World._assign_guard_equipment: the core equipment of a guard
GuardEquipment(id) ==
    << Item(<<"baton", id, 0>>, "baton"),
       Item(<<"handcuffs", id, 0>>, "handcuffs"),
       Item(<<"radio", id, 0>>, "radio"),
       Item(<<"keys", id, 0>>, "keys") >>

Food == Item(<<"food", "stock", 1>>, "food")

Water == Item(<<"water", "stock", 1>>, "water")

Book == Item(<<"book", "stock", 1>>, "book")

Spoon == Item(<<"spoon", "stock", 1>>, "spoon")

\* vitals an agent can have in the course of a run (or by intervention,
\* api/rest.py:126-128): fresh, weakened, starved, worn out
Vitals(hp, sanity, hunger, thirst, strength, ap) ==
    [hp |-> hp, sanity |-> sanity, hunger |-> hunger, thirst |-> thirst,
     strength |-> strength, action_points |-> ap]

Fresh == Vitals(100, 100, 0, 0, 100, 3)

Weak == Vitals(3, 55, 62, 40, 60, 3)

Starved == Vitals(12, 4, 96, 97, 10, 2)

WornOut == Vitals(80, 8, 70, 90, 3, 1)

Dead == Vitals(0, 30, 50, 50, 50, 2)

Frail == Vitals(100, 60, 20, 20, 5, 3)

\* wounded and hungry, short of the survival thresholds for food and water
Hurt == Vitals(29, 50, 85, 50, 60, 1)

Tied == Vitals(25, 70, 85, 40, 60, 0)

Parched == Vitals(80, 70, 90, 87, 60, 3)

\* critically hungry and otherwise well
Hungry == Vitals(100, 100, 95, 10, 100, 3)

WithVitals(a, v) ==
    LET b == [a EXCEPT !.hp = v.hp, !.sanity = v.sanity, !.hunger = v.hunger,
                       !.thirst = v.thirst, !.strength = v.strength,
                       !.action_points = v.action_points]
    \* the tags are those of the latest advance; a death by attack leaves
    \* them without "deceased"
    IN  [b EXCEPT !.status_tags =
            SelectSeq(update_status_tags(b), LAMBDA t : t /= "deceased")]

\* the world after World.initialize_world, with the vitals, inventories and
\* positions given
World(r, vg, v1, v2, inv1, pos2) ==
    LET s == r.default_relationship_score
    IN  [id \in AgentIds |->
          CASE id = "guard_001" ->
                 WithVitals(NewAgent(id, <<1, 1>>, GuardEquipment(id), s), vg)
            [] id = "prisoner_001" ->
                 WithVitals(NewAgent(id, <<2, 2>>, inv1, s), v1)
            [] id = "prisoner_002" ->
                 WithVitals(NewAgent(id, pos2, << >>, s), v2)]

Targets == AgentIds \cup {"none", "ghost"}

ItemIds == {Food.item_id, Water.item_id, Book.item_id, Spoon.item_id,
            <<"baton", "guard_001", 0>>, NoItem}

MoveTargets == {<< >>, <<2, 3>>, <<3, 2>>, <<1, 1>>, <<40, 2>>, <<-5, -9>>,
                <<8, 15>>, <<2, 30>>, <<7, 8>>, <<-20, 2>>}

\* every decision the decision boundary can return, over small parameter sets
AllDecisions ==
    {Plain(k) : k \in {"do_nothing", "emergency_assembly", "craft_weapon",
                       "dig_tunnel"}}
    \cup {Decision("move", "none", NoItem, xy, "none", "none") : xy \in MoveTargets}
    \cup {Decision(k, t, NoItem, << >>, "none", "none") :
            k \in {"speak", "attack", "patrol_inspect", "assign_task",
                   "steal_item", "form_alliance"}, t \in Targets}
    \cup {Decision("use_item", "none", i, << >>, "none", "none") : i \in ItemIds}
    \cup {Decision("give_item", t, i, << >>, "none", "none") :
            t \in Targets, i \in ItemIds}
    \cup {Decision("enforce_punishment", t, NoItem, << >>, p, "none") :
            t \in Targets,
            p \in {"none", "isolation", "labor", "restriction", "other"}}
    \cup {Decision("announce_rule", "none", NoItem, << >>, "none", x) :
            x \in {"none", "", "rule"}}
    \cup {Decision("spread_rumor", "none", NoItem, << >>, "none", x) :
            x \in {"none", "guard", "escape"}}

\* the decisions explored inside the scheduler's tick loop
SchedDecisions ==
    {Plain("do_nothing"), Plain("dig_tunnel")}
    \cup {Decision("attack", t, NoItem, << >>, "none", "none") :
            t \in {"guard_001", "prisoner_001"}}

NoDecision == Plain("none")

\* the draws of the random module one execute can consume
RandomDraws(r, d) ==
    LET k == d.action_type
    IN  [ roll : IF k = "attack"
                 THEN r.random_damage_range[1]..r.random_damage_range[2]
                 ELSE {0},
          pick : IF k = "steal_item" THEN 1..4 ELSE {1},
          positive : IF k = "craft_weapon" THEN BOOLEAN ELSE {TRUE} ]

----------------------------------------------------------------------------
(* Rule engine: core/rule_engine.py *)

\* RuleEngine.rules in registration order (_register_default_rules)
RuleOrder ==
    <<"guard_food_distribution", "cafeteria_food_supply", "food_scarcity">>

RuleIds == {RuleOrder[i] : i \in 1..Len(RuleOrder)}

\* the priority each default rule passes to BaseRule.__init__
RulePriority(rid) ==
    CASE rid = "guard_food_distribution" -> 8
      [] rid = "cafeteria_food_supply"   -> 9
      [] rid = "food_scarcity"           -> 6

\* TemporalRule.trigger_hours; the resource rule has none
TriggerHours(rid) ==
    CASE rid = "guard_food_distribution" -> {8, 12, 16, 20}
      [] rid = "cafeteria_food_supply"   -> {7, 12, 15, 18, 21}
      [] OTHER                           -> {}

\* supply_config["meal_times"][hour] as <<food_count, water_count>>
MealTimes(h) ==
    CASE h = 7  -> <<8, 6>>
      [] h = 12 -> <<10, 8>>
      [] h = 15 -> <<4, 3>>
      [] h = 18 -> <<10, 8>>
      [] h = 21 -> <<3, 2>>

\* max(1, int(count * 0.8)) with scarcity_factor 0.8
ScarceCount(count) == Max(1, TruncDiv(count * 8, 10))

\* the first CAFETERIA cell of _generate_map_cells
CafeteriaPos(r) == <<r.map_size[1] - 2, r.map_size[2] - 2>>

\* the f-string item ids of the rule effects; day and hour make the stamp
Stamp(d, h, i) == (d * 24 + h) * 16 + i

\* game_map.items is a dict: an entry is a position and the items lying there
ItemsAt(items, pos) ==
    IF \E k \in DOMAIN items : items[k].pos = pos
    THEN items[CHOOSE k \in DOMAIN items : items[k].pos = pos].items
    ELSE << >>

HasKey(items, pos) == \E k \in DOMAIN items : items[k].pos = pos

\* game_map.items[pos] = new: in place for a known key, appended otherwise
SetItemsAt(items, pos, new) ==
    IF HasKey(items, pos)
    THEN [k \in DOMAIN items |->
            IF items[k].pos = pos THEN [pos |-> pos, items |-> new]
            ELSE items[k]]
    ELSE Append(items, [pos |-> pos, items |-> new])

CountType(seq, type) ==
    Cardinality({k \in DOMAIN seq : seq[k].item_type = type})

\* World._place_initial_items with the three random book cells drawn
PlaceInitialItems(r, books) ==
    LET c  == CafeteriaPos(r)
        m0 == <<[pos |-> c,
                 items |-> <<Item(<<"food", "map", 1>>, "food"),
                             Item(<<"water", "map", 1>>, "water")>>]>>
        put(m, i) == SetItemsAt(m, books[i],
                        Append(ItemsAt(m, books[i]),
                               Item(<<"book", "map", i>>, "book")))
    IN  put(put(put(m0, 1), 2), 3)

\* sorted(seq, key=priority, reverse=True): a stable sort, rules of equal
\* priority keep their order in seq
SortByPriority(seq) ==
    LET rank(i) == 1 + Cardinality({j \in DOMAIN seq :
                        \/ RulePriority(seq[j]) > RulePriority(seq[i])
                        \/ RulePriority(seq[j]) = RulePriority(seq[i]) /\ j < i})
    IN  [p \in DOMAIN seq |-> seq[CHOOSE i \in DOMAIN seq : rank(i) = p]]

\* sorted(...) over every registered rule, without `if rule.enabled`
SortedRulesAll(enabled) == SortByPriority(RuleOrder)

\* sorted([(rule_id, rule) ... if rule.enabled], key=priority, reverse=True)
sorted_rules(enabled) ==
    SortByPriority(SelectSeq(RuleOrder, LAMBDA rid : enabled[rid]))

\* FoodScarcityRule.check_trigger: three hungry prisoners near the cafeteria
NearbyHungryPrisoners(r, ag) ==
    Cardinality({id \in AgentIds :
        /\ ag[id].role = "Prisoner"
        /\ ag[id].hunger > 50
        /\ Abs(ag[id].position[1] - CafeteriaPos(r)[1])
             + Abs(ag[id].position[2] - CafeteriaPos(r)[2]) <= 3})

\* TemporalRule.check_trigger alone: the hour is a trigger hour
CheckTriggerHourOnly(rid, r, ag, h, m) ==
    IF rid = "food_scarcity" THEN NearbyHungryPrisoners(r, ag) >= 3
    ELSE h \in TriggerHours(rid)

\* rule.check_trigger(world_state) of the three default rules
check_trigger(rid, r, ag, h, m) ==
    IF rid = "food_scarcity" THEN NearbyHungryPrisoners(r, ag) >= 3
    ELSE h \in TriggerHours(rid) /\ m = 0

RuleEvent(kind, rid) == [kind |-> kind, rule |-> rid]

\* GuardFoodDistributionRule.execute for one guard
GiveRations(a, id, d, h) ==
    [a EXCEPT !.inventory = @ \o
        << Item(<<"guard_food", id, Stamp(d, h, 0)>>, "food"),
           Item(<<"guard_food", id, Stamp(d, h, 1)>>, "food"),
           Item(<<"guard_water", id, Stamp(d, h, 0)>>, "water"),
           Item(<<"guard_water", id, Stamp(d, h, 1)>>, "water") >>]

Guards == SelectSeq(AgentOrder, LAMBDA id : RoleOf(id) = "Guard")

GuardFoodDistribution(ag, d, h) ==
    [agents |-> [id \in AgentIds |->
                    IF RoleOf(id) = "Guard" THEN GiveRations(ag[id], id, d, h)
                    ELSE ag[id]],
     events |-> [k \in DOMAIN Guards |->
                    RuleEvent("guard_received", "guard_food_distribution")]]

\* CafeteriaFoodSupplyRule.execute
CafeteriaFoodSupply(r, ag, items, d, h) ==
    LET rid   == "cafeteria_food_supply"
        food  == ScarceCount(MealTimes(h)[1])
        water == ScarceCount(MealTimes(h)[2])
        c     == CafeteriaPos(r)
        old   == CountType(ItemsAt(items, c), "food")
        new   == [i \in 1..food |->
                     Item(<<"cafeteria_food", "map", Stamp(d, h, i - 1)>>, "food")]
                 \o [i \in 1..water |->
                     Item(<<"cafeteria_water", "map", Stamp(d, h, i - 1)>>, "water")]
        prisoners == Cardinality({id \in AgentIds : ag[id].role = "Prisoner"})
        e1 == IF HasKey(items, c) /\ old > 0
              THEN <<RuleEvent("leftover_cleared", rid)>> ELSE << >>
        e2 == <<RuleEvent("cafeteria_supply", rid)>>
        \* scarcity_ratio = food / max(1, prisoners) < 0.8
        e3 == IF food * 10 < 8 * Max(1, prisoners)
              THEN <<RuleEvent("scarcity_detected", rid)>> ELSE << >>
    IN  [items  |-> SetItemsAt(items, c, new),
         events |-> e1 \o e2 \o e3]

\* FoodScarcityRule.execute; the episodic memory lines are not modelled
FoodScarcity(r, items) ==
    IF /\ HasKey(items, CafeteriaPos(r))
       /\ CountType(ItemsAt(items, CafeteriaPos(r)), "food") <= 2
    THEN <<RuleEvent("competition", "food_scarcity")>> ELSE << >>

\* rule.execute(world_state): the world after the effect and its events
rule_execute(rid, r, ag, items, d, h) ==
    CASE rid = "guard_food_distribution" ->
           [agents |-> GuardFoodDistribution(ag, d, h).agents,
            items  |-> items,
            events |-> GuardFoodDistribution(ag, d, h).events]
      [] rid = "cafeteria_food_supply" ->
           [agents |-> ag,
            items  |-> CafeteriaFoodSupply(r, ag, items, d, h).items,
            events |-> CafeteriaFoodSupply(r, ag, items, d, h).events]
      [] rid = "food_scarcity" ->
           [agents |-> ag, items |-> items, events |-> FoodScarcity(r, items)]

\* the running state of one execute_rules call
RuleRun(ag, items, hist) ==
    [agents |-> ag, items |-> items, history |-> hist, events |-> << >>,
     evaluated |-> << >>, invoked |-> << >>, propagated |-> FALSE]

\* an exception that leaves the try statement ends the call in its caller
OnRuleExceptionReraise(st, rid) == [st EXCEPT !.propagated = TRUE]

\* `except Exception as e`: the error line is appended, the loop goes on
OnRuleException(st, rid) ==
    [st EXCEPT !.events = Append(@, RuleEvent("rule_error", rid))]

\* the body of `for rule_id, rule in sorted_rules` for one rule; a rule in
\* `faults` raises in its check or at the entry of its effect
RuleStep(st, rid, faults, r, d, h, m) ==
    LET s1 == [st EXCEPT !.evaluated = Append(@, rid)]
    IN  IF <<rid, "check">> \in faults THEN OnRuleException(s1, rid)
        ELSE IF ~check_trigger(rid, r, st.agents, h, m) THEN s1
        ELSE LET s2 == [s1 EXCEPT !.invoked = Append(@, rid)]
             IN  IF <<rid, "effect">> \in faults
                 THEN OnRuleException(s2, rid)
                 ELSE LET out == rule_execute(rid, r, st.agents, st.items, d, h)
                      IN  [s2 EXCEPT
                             !.agents  = out.agents,
                             !.items   = out.items,
                             !.events  = @ \o out.events,
                             !.history = Append(@,
                                 [rule_id |-> rid, day |-> d, hour |-> h,
                                  events_count |-> Len(out.events)])]

RECURSIVE RunRules(_, _, _, _, _, _, _, _)
RunRules(st, order, i, faults, r, d, h, m) ==
    IF i > Len(order) \/ st.propagated THEN st
    ELSE RunRules(RuleStep(st, order[i], faults, r, d, h, m), order, i + 1,
                  faults, r, d, h, m)

\* RuleEngine.execute_rules(world_state); config["rule_engine"]["enabled"] is
\* True and debug_mode False on both paths of _load_config
execute_rules(enabled, faults, r, ag, items, hist, d, h, m) ==
    RunRules(RuleRun(ag, items, hist), sorted_rules(enabled), 1, faults,
             r, d, h, m)

\* the cells the three books of _place_initial_items fall on
BookCells == {<<<<3, 4>>, <<3, 4>>, <<5, 9>>>>, <<<<7, 14>>, <<2, 2>>, <<6, 6>>>>}

\* a freshly constructed rule engine, the initial map items, no goal call yet
SubsystemsInit ==
    /\ rule_enabled = [rid \in RuleIds |-> TRUE]
    /\ rule_history = << >>
    /\ rule_call = << >>
    /\ map_items = PlaceInitialItems(rules, <<<<3, 4>>, <<3, 4>>, <<5, 9>>>>)
    /\ goal_eval = << >>
    /\ loops = << >>

----------------------------------------------------------------------------
(* Goal system: models/maslow_goals.py *)

\* _calculate_distance: the Manhattan distance
calculate_distance(p, q) == Abs(p[1] - q[1]) + Abs(p[2] - q[2])

\* NeedLevel, by value
NeedLevel ==
    [SURVIVAL |-> 1, SAFETY |-> 2, SOCIAL |-> 3, ROLE |-> 4, EXPLORATION |-> 5]

\* Goal(...): the fields a caller can tell two goals apart by
Goal(gid, level, score, kind, xy, target) ==
    [goal_id |-> gid, need_level |-> level, priority_score |-> score,
     action_type |-> kind, xy |-> xy, target_id |-> target]

\* world_state.agents.values() without the agent itself, in dict order
OtherAgents(id) == SelectSeq(AgentOrder, LAMBDA o : o /= id)

\* agent.relationships.get(o) is an entry
HasRelationship(a, o) == o \in DOMAIN a.relationships

\* the (x, y) of `for x in range(width): for y in range(height)`
MapPositions(r) ==
    {<<x, y>> : x \in 0..(r.map_size[1] - 1), y \in 0..(r.map_size[2] - 1)}

\* (x, y) is visited before (u, v) by the two nested loops
ScanBefore(p, q) == p[1] < q[1] \/ (p[1] = q[1] /\ p[2] < q[2])

\* _is_position_safe
is_position_safe(ag, id, pos) ==
    /\ \A o \in AgentIds \ {id} : ag[o].position /= pos
    /\ \A o \in AgentIds \ {id} :
         calculate_distance(pos, ag[o].position) <= 2
           => ~(HasRelationship(ag[id], o) /\ ag[id].relationships[o] < 40)

\* _find_safe_positions, cut to the head of the list the stable sort by
\* distance leaves (the caller reads safe_positions[0] and its truth value)
find_safe_positions(r, ag, id) ==
    LET cur == ag[id].position
        S   == {p \in MapPositions(r) :
                  /\ is_position_safe(ag, id, p)
                  /\ calculate_distance(cur, p) <= 8}
        first(p) == \A q \in S \ {p} :
                      \/ calculate_distance(cur, p) < calculate_distance(cur, q)
                      \/ /\ calculate_distance(cur, p) = calculate_distance(cur, q)
                         /\ ScanBefore(p, q)
    IN  IF S = {} THEN << >> ELSE << CHOOSE p \in S : first(p) >>

\* _find_nearest_resource: the constant cafeteria guess
find_nearest_resource == <<4, 8>>

\* _assess_nearby_threats: the agents scored below 40, in dict order
assess_nearby_threats(ag, id) ==
    SelectSeq(OtherAgents(id),
              LAMBDA o : HasRelationship(ag[id], o)
                           /\ ag[id].relationships[o] < 40)

\* threat_level = (40 - score) * (5 - min(distance, 4))
ThreatLevel(ag, id, o) ==
    (40 - ag[id].relationships[o])
      * (5 - Min(calculate_distance(ag[id].position, ag[o].position), 4))

\* max(threats, key=threat_level): the first of the largest
PrimaryThreat(ag, id) ==
    LET t == assess_nearby_threats(ag, id)
    IN  t[CHOOSE i \in DOMAIN t : \A j \in DOMAIN t :
            \/ ThreatLevel(ag, id, t[j]) < ThreatLevel(ag, id, t[i])
            \/ ThreatLevel(ag, id, t[j]) = ThreatLevel(ag, id, t[i]) /\ i <= j]

\* _find_escape_positions, cut to the head of the list sorted by the
\* negated distance from the threat
find_escape_positions(r, ag, id, threat) ==
    LET cur == ag[id].position
        tp  == ag[threat].position
        S   == {p \in MapPositions(r) :
                  /\ calculate_distance(cur, p) <= 8
                  /\ calculate_distance(tp, p) > 3
                  /\ \A o \in AgentIds : ag[o].position /= p}
        first(p) == \A q \in S \ {p} :
                      \/ calculate_distance(tp, p) > calculate_distance(tp, q)
                      \/ /\ calculate_distance(tp, p) = calculate_distance(tp, q)
                         /\ ScanBefore(p, q)
    IN  IF S = {} THEN << >> ELSE << CHOOSE p \in S : first(p) >>

\* _find_potential_allies
find_potential_allies(ag, id) ==
    SelectSeq(OtherAgents(id),
              LAMBDA o :
                /\ ag[o].role = ag[id].role
                /\ ~HasRelationship(ag[id], o) \/ ag[id].relationships[o] > 30
                /\ calculate_distance(ag[id].position, ag[o].position) <= 2)

\* _generate_survival_goals
generate_survival_goals(r, ag, id) ==
    LET a    == ag[id]
        safe == find_safe_positions(r, ag, id)
        flee == IF a.hp < 30 /\ safe /= << >>
                THEN <<Goal("survival_flee", NeedLevel.SURVIVAL, 100 - a.hp,
                            "move", safe[1], "none")>>
                ELSE << >>
        eat  == IF a.hunger > 85
                THEN <<Goal("survival_hunger", NeedLevel.SURVIVAL,
                            90 + (a.hunger - 85), "move",
                            find_nearest_resource, "none")>>
                ELSE << >>
        drink == IF a.thirst > 80
                 THEN <<Goal("survival_thirst", NeedLevel.SURVIVAL,
                             88 + (a.thirst - 80), "move",
                             find_nearest_resource, "none")>>
                 ELSE << >>
    IN  flee \o eat \o drink

\* _generate_safety_goals
generate_safety_goals(r, ag, id) ==
    LET a == ag[id]
        escape ==
            IF assess_nearby_threats(ag, id) = << >> THEN << >>
            ELSE LET t == PrimaryThreat(ag, id)
                     d == calculate_distance(a.position, ag[t].position)
                     e == find_escape_positions(r, ag, id, t)
                 IN  IF d <= 2 /\ e /= << >>
                     THEN <<Goal("safety_escape", NeedLevel.SAFETY, 80 - d * 10,
                                 "move", e[1], "none")>>
                     ELSE << >>
        food  == IF a.hunger > 60
                 THEN <<Goal("safety_food", NeedLevel.SAFETY,
                             50 + a.hunger - 60, "move",
                             find_nearest_resource, "none")>>
                 ELSE << >>
        water == IF a.thirst > 55
                 THEN <<Goal("safety_water", NeedLevel.SAFETY,
                             48 + a.thirst - 55, "move",
                             find_nearest_resource, "none")>>
                 ELSE << >>
    IN  escape \o food \o water

\* _generate_social_goals
generate_social_goals(ag, id) ==
    LET a == ag[id]
        allies == {o \in DOMAIN a.relationships : a.relationships[o] > 60}
        cand   == find_potential_allies(ag, id)
        alliance ==
            IF allies = {} /\ cand /= << >>
            THEN <<Goal("social_alliance", NeedLevel.SOCIAL, 40, "speak",
                        << >>, cand[1])>>
            ELSE << >>
        friends ==
            SelectSeq(OtherAgents(id),
                      LAMBDA o :
                        /\ HasRelationship(a, o)
                        /\ a.relationships[o] > 60
                        /\ calculate_distance(a.position, ag[o].position) <= 2)
        maintain ==
            [k \in DOMAIN friends |->
                Goal("social_maintain", NeedLevel.SOCIAL, 30, "speak", << >>,
                     friends[k])]
    IN  alliance \o maintain

\* _get_patrol_points
PatrolPoints == <<<<1, 1>>, <<7, 1>>, <<1, 14>>, <<7, 14>>, <<4, 8>>>>

\* _get_prisoner_safe_areas
PrisonerSafeAreas == <<<<2, 10>>, <<6, 10>>, <<4, 12>>>>

\* _generate_role_goals
generate_role_goals(ag, id) ==
    LET cur == ag[id].position
        far == CHOOSE i \in DOMAIN PatrolPoints : \A j \in DOMAIN PatrolPoints :
                 \/ calculate_distance(cur, PatrolPoints[j])
                      < calculate_distance(cur, PatrolPoints[i])
                 \/ /\ calculate_distance(cur, PatrolPoints[j])
                         = calculate_distance(cur, PatrolPoints[i])
                    /\ i <= j
    IN  IF ag[id].role = "Guard"
        THEN <<Goal("role_patrol", NeedLevel.ROLE, 25, "move",
                    PatrolPoints[far], "none")>>
        ELSE <<Goal("role_adapt", NeedLevel.ROLE, 20, "move",
                    PrisonerSafeAreas[1], "none")>>

\* the exploration_points of _find_unexplored_areas
ExplorationPoints == <<<<0, 0>>, <<8, 0>>, <<0, 15>>, <<8, 15>>, <<4, 8>>>>

\* _find_unexplored_areas
find_unexplored_areas(ag, id) ==
    SelectSeq(ExplorationPoints,
              LAMBDA p : calculate_distance(ag[id].position, p) > 3)

\* _generate_exploration_goals
generate_exploration_goals(ag, items, id) ==
    LET shelves == SelectSeq(items, LAMBDA e : CountType(e.items, "book") > 0)
        mental  == IF ag[id].sanity < 60
                   THEN [k \in DOMAIN shelves |->
                           Goal("exploration_mental", NeedLevel.EXPLORATION, 15,
                                "move", shelves[k].pos, "none")]
                   ELSE << >>
        areas   == find_unexplored_areas(ag, id)
        discover == IF areas /= << >>
                    THEN <<Goal("exploration_discover", NeedLevel.EXPLORATION,
                                10, "move", areas[1], "none")>>
                    ELSE << >>
    IN  mental \o discover

\* _create_default_goal
create_default_goal ==
    Goal("default_rest", NeedLevel.EXPLORATION, 1, "do_nothing", << >>, "none")

\* a sort by falling score that puts the later of two equal goals first
SortGoalsTiesLast(goals) ==
    LET rank(i) == 1 + Cardinality({j \in DOMAIN goals :
                        \/ goals[j].priority_score > goals[i].priority_score
                        \/ /\ goals[j].priority_score = goals[i].priority_score
                           /\ j > i})
    IN  [p \in DOMAIN goals |-> goals[CHOOSE i \in DOMAIN goals : rank(i) = p]]

\* all_goals.sort(key=lambda g: g.priority_score, reverse=True): stable,
\* goals of equal score keep their order
sort_goals(goals) ==
    LET rank(i) == 1 + Cardinality({j \in DOMAIN goals :
                        \/ goals[j].priority_score > goals[i].priority_score
                        \/ /\ goals[j].priority_score = goals[i].priority_score
                           /\ j < i})
    IN  [p \in DOMAIN goals |-> goals[CHOOSE i \in DOMAIN goals : rank(i) = p]]

\* the candidates of all five generators, in NeedLevel order
all_goals(r, ag, items, id) ==
    generate_survival_goals(r, ag, id) \o generate_safety_goals(r, ag, id)
      \o generate_social_goals(ag, id) \o generate_role_goals(ag, id)
      \o generate_exploration_goals(ag, items, id)

\* an evaluation that charges the agent an action point
EvaluateAndCharge(r, ag, items, id) ==
    [goals    |-> all_goals(r, ag, items, id),
     selected |-> sort_goals(all_goals(r, ag, items, id))[1],
     agents   |-> [ag EXCEPT ![id].action_points = Max(0, @ - 1)],
     items    |-> items]

\* MaslowGoalSystem.evaluate_and_select_goal(agent, world_state): the
\* candidate list, the goal returned, and the agents and map items the call
\* leaves (it assigns to neither)
evaluate_and_select_goal(r, ag, items, id) ==
    [goals    |-> all_goals(r, ag, items, id),
     selected |-> IF all_goals(r, ag, items, id) = << >>
                  THEN create_default_goal
                  ELSE sort_goals(all_goals(r, ag, items, id))[1],
     agents   |-> ag,
     items    |-> items]

----------------------------------------------------------------------------
(* The run loop of GameEngine.start_simulation *)

\* the engine after start_simulation has initialised the world and set the
\* running flags (engine.py:39-51), at the first `while self.is_running`
Init ==
    /\ rules \in RuleConfigs \cup {LethalRules}
    /\ llm_available \in BOOLEAN
    /\ IF rules \in RuleConfigs
       THEN /\ \E vg \in {Fresh}, v1 \in {Starved, Frail}, v2 \in {Weak},
                  inv1 \in {<<Spoon, Food>>}, pos2 \in {<<2, 3>>} :
                  agents = World(rules, vg, v1, v2, inv1, pos2)
            /\ \E t \in {<<8, 14>>, <<23, 1>>} : hour = t[1] /\ max_days = t[2]
       ELSE /\ agents = World(rules, Fresh, Fresh, Fresh, << >>, <<2, 3>>)
            /\ hour = 8
            /\ max_days = 14
    /\ day = 1
    /\ minute = 0
    /\ last_agent_action_time = 8
    /\ engine_running = TRUE
    /\ world_running = TRUE
    /\ event_log = {"world_initialized"}
    /\ pc = "check"
    /\ agent_idx = 0
    /\ turn_counts = [active |-> 0, successful |-> 0]
    /\ phases = << >>
    /\ attempts = 0
    /\ last_result = NoResult
    /\ ticks = 0
    /\ SubsystemsInit

\* GameEngine.stop_simulation
\* a stop that flips the two flags instead of clearing them
StopSimulationToggle ==
    /\ engine_running' = ~engine_running
    /\ world_running' = ~world_running

stop_simulation ==
    /\ engine_running' = FALSE
    /\ world_running' = FALSE

\* `while self.is_running: if self._should_stop_experiment(): break`, and
\* the stop_simulation() after the loop
LoopCheck ==
    /\ pc = "check"
    /\ LET reason == should_stop_experiment(agents, day, hour, max_days,
                                            last_agent_action_time)
       IN  IF ~engine_running
           THEN /\ stop_simulation
                /\ pc' = "stopped"
                /\ UNCHANGED <<event_log, ticks>>
           ELSE IF reason /= "none"
           THEN /\ stop_simulation
                /\ event_log' = event_log \cup {reason}
                /\ pc' = "stopped"
                /\ UNCHANGED ticks
           ELSE /\ ticks < MaxTicks
                /\ ticks' = ticks + 1
                /\ pc' = "turn"
                /\ UNCHANGED <<engine_running, world_running, event_log>>
    /\ UNCHANGED <<subsystem_vars, rules, agents, day, hour, minute, max_days,
                   last_agent_action_time, llm_available, agent_idx,
                   turn_counts, phases, attempts, last_result>>

\* TimeController.advance_time: the clock, the "Day begins" line and the
\* hourly changes of the agents
\* an advance that leaves the clock where it is
AdvanceTimeClockStuck(r, ag, d, h) ==
    LET adv == AdvanceAgents(r, ag, 1)
    IN  [hour   |-> h,
         day    |-> d,
         log    |-> adv.log,
         agents |-> adv.agents,
         raised |-> adv.raised]

\* an advance that adds the hour without the roll-over to the next day
AdvanceTimeNoRollover(r, ag, d, h) ==
    LET adv == AdvanceAgents(r, ag, 1)
    IN  [hour   |-> h + 1,
         day    |-> d,
         log    |-> adv.log,
         agents |-> adv.agents,
         raised |-> adv.raised]

advance_time(r, ag, d, h) ==
    LET newday == h + 1 >= 24
        adv    == AdvanceAgents(r, ag, 1)
    IN  [hour   |-> IF newday THEN 0 ELSE h + 1,
         day    |-> IF newday THEN d + 1 ELSE d,
         log    |-> (IF newday THEN {"day_begins"} ELSE {}) \cup adv.log,
         agents |-> adv.agents,
         raised |-> adv.raised]

\* _execute_turn, phase 1 and the head of phase 2 (lines 106-129):
\* clock.advance_time, the sort, the all-incapacitated check and the walk
\* of the for loop to the first agent that acts
AdvanceTime ==
    /\ pc = "turn"
    /\ \E adv \in {advance_time(rules, agents, day, hour)} :
       LET dead == \A id \in AgentIds : adv.agents[id].hp <= 0
           n    == NextActor(adv.agents, 1)
       IN  /\ hour' = adv.hour
           /\ day' = adv.day
           /\ agents' = adv.agents
           /\ IF adv.raised
              THEN /\ pc' = "crashed"
                   /\ phases' = << >>
                   /\ event_log' = event_log \cup adv.log
                   /\ UNCHANGED <<agent_idx, turn_counts>>
              ELSE /\ pc' = IF n.idx > Len(SortedAgentIds) THEN "publish" ELSE "while"
                   /\ phases' = <<"status", "actions">>
                   /\ event_log' = event_log \cup adv.log
                        \cup (IF dead THEN {"all_incapacitated"} ELSE {})
                   /\ agent_idx' = n.idx
                   /\ turn_counts' = [active |-> n.active, successful |-> 0]
    /\ attempts' = 0
    /\ UNCHANGED <<subsystem_vars, rules, minute, max_days, last_agent_action_time,
                   engine_running, world_running, llm_available, last_result,
                   ticks>>

\* the rest of one iteration of `while agent.action_points > 0` once
\* _execute_agent_action has returned out (lines 135-146), and the walk of
\* the for loop to the next agent that acts
AfterAttempt(out) ==
    LET id   == SortedAgentIds[agent_idx]
        ok   == out.result.success
        real == ok /\ out.result.message \notin LLMErrorMessages
        stay == ok /\ out.agents[id].action_points > 0
        n    == NextActor(out.agents, agent_idx + 1)
    IN  /\ agents' = out.agents
        /\ event_log' = event_log \cup out.log
        /\ last_result' = out.result
        /\ last_agent_action_time' =
              IF real THEN SimHours(day, hour) ELSE last_agent_action_time
        /\ IF stay
           THEN /\ pc' = "while"
                /\ attempts' = Min(attempts + 1, MaxAttempts)
                /\ agent_idx' = agent_idx
                /\ turn_counts' = [turn_counts EXCEPT !.successful =
                                     Min(@ + (IF real THEN 1 ELSE 0), MaxAttempts)]
           ELSE /\ pc' = IF n.idx > Len(SortedAgentIds) THEN "publish" ELSE "while"
                /\ attempts' = 0
                /\ agent_idx' = n.idx
                /\ turn_counts' =
                     [active |-> turn_counts.active + n.active,
                      successful |-> Min(turn_counts.successful
                                           + (IF real THEN 1 ELSE 0), MaxAttempts)]

\* _execute_agent_action when llm_service.is_available() is false: no await
AttemptUnavailable ==
    /\ pc = "while"
    /\ ~llm_available
    /\ \E out \in {execute_agent_action(rules, agents, SortedAgentIds[agent_idx],
                         "unavailable", NoDecision,
                         [roll |-> 0, pick |-> 1, positive |-> TRUE], hour)} :
          AfterAttempt(out)
    /\ UNCHANGED <<subsystem_vars, rules, day, hour, minute, max_days, engine_running,
                   world_running, llm_available, phases, ticks>>

\* _execute_agent_action up to `await self.llm_service.get_agent_decision`
CallDecision ==
    /\ pc = "while"
    /\ llm_available
    /\ pc' = "await_llm"
    /\ UNCHANGED <<subsystem_vars, rules, agents, day, hour, minute, max_days,
                   last_agent_action_time, engine_running, world_running,
                   event_log, llm_available, agent_idx, turn_counts, phases,
                   attempts, last_result, ticks>>

\* the awaited call raises (as the shipped get_agent_decision does: it takes
\* two parameters and engine.py:170 passes three), returns None, or returns
\* a decision; _execute_agent_action then runs to its return
DecisionReturns ==
    /\ pc = "await_llm"
    /\ \E src \in {"raised", "empty", "decision"} :
         \E d \in IF src = "decision" THEN SchedDecisions ELSE {NoDecision} :
           \E rnd \in RandomDraws(rules, d) :
             \E out \in {execute_agent_action(rules, agents,
                            SortedAgentIds[agent_idx], src, d, rnd, hour)} :
               AfterAttempt(out)
    /\ UNCHANGED <<subsystem_vars, rules, day, hour, minute, max_days, engine_running,
                   world_running, llm_available, phases, ticks>>

\* _execute_turn lines 148-159: the end-of-turn log lines and the broadcast
PublishState ==
    /\ pc = "publish"
    /\ event_log' = event_log \cup
          (IF turn_counts.active = 0 THEN {"no_active_agents"}
           ELSE IF turn_counts.successful = 0 THEN {"no_successful_actions"}
           ELSE {})
    /\ phases' = Append(phases, "publish")
    /\ pc' = "sleep"
    /\ UNCHANGED <<subsystem_vars, rules, agents, day, hour, minute, max_days,
                   last_agent_action_time, engine_running, world_running,
                   llm_available, agent_idx, turn_counts, attempts,
                   last_result, ticks>>

\* `await asyncio.sleep(self.turn_delay)` returns
Wake ==
    /\ pc = "sleep"
    /\ pc' = "check"
    /\ UNCHANGED <<subsystem_vars, rules, agents, day, hour, minute, max_days,
                   last_agent_action_time, engine_running, world_running,
                   event_log, llm_available, agent_idx, turn_counts, phases,
                   attempts, last_result, ticks>>

\* ConnectionManager.stop_experiment, run while the loop coroutine is
\* suspended in an await
StopExperiment ==
    /\ pc \in {"await_llm", "sleep"}
    /\ engine_running
    /\ stop_simulation
    /\ UNCHANGED <<subsystem_vars, rules, agents, day, hour, minute, max_days,
                   last_agent_action_time, event_log, llm_available, pc,
                   agent_idx, turn_counts, phases, attempts, last_result, ticks>>

Next ==
    \/ LoopCheck
    \/ AdvanceTime
    \/ AttemptUnavailable
    \/ CallDecision
    \/ DecisionReturns
    \/ PublishState
    \/ Wake
    \/ StopExperiment

Spec == Init /\ [][Next]_vars

----------------------------------------------------------------------------
(* One operation on a world drawn from the states a run passes through:   *)
(* a status advance, or one action taken through the scheduler's          *)
(* can_execute / execute path, for every action kind                      *)

InitOps ==
    /\ rules \in RuleConfigs
    /\ \E vg \in {Fresh, Dead}, v1 \in {Fresh, Weak, Starved, WornOut, Dead},
          v2 \in {Fresh, WornOut, Hungry},
          inv1 \in {<< >>, <<Spoon, Food, Water, Book>>},
          pos2 \in {<<2, 3>>, <<6, 12>>},
          s \in {rules.default_relationship_score, 5, 95} :
          agents = World([rules EXCEPT !.default_relationship_score = s],
                         vg, v1, v2, inv1, pos2)
    /\ llm_available = TRUE
    /\ hour \in {8, 23}
    /\ max_days = 14
    /\ day = 1
    /\ minute = 0
    /\ last_agent_action_time = 8
    /\ engine_running = TRUE
    /\ world_running = TRUE
    /\ event_log = {"world_initialized"}
    /\ pc = "ops"
    /\ agent_idx = 0
    /\ turn_counts = [active |-> 0, successful |-> 0]
    /\ phases = << >>
    /\ attempts = 0
    /\ last_result = NoResult
    /\ ticks = 0
    /\ SubsystemsInit

\* clock.advance_time(world_state)
OpAdvance ==
    /\ pc = "ops"
    /\ LET adv == advance_time(rules, agents, day, hour)
       IN  /\ hour' = adv.hour
           /\ day' = adv.day
           /\ agents' = adv.agents
           /\ event_log' = event_log \cup adv.log
           /\ pc' = IF adv.raised THEN "raised" ELSE "advanced"
    /\ UNCHANGED <<subsystem_vars, rules, minute, max_days, last_agent_action_time,
                   engine_running, world_running, llm_available, agent_idx,
                   turn_counts, phases, attempts, last_result, ticks>>

\* _execute_agent_action for a decision the boundary returned
OpAction ==
    /\ pc = "ops"
    /\ \E id \in AgentIds, d \in AllDecisions :
         \E rnd \in RandomDraws(rules, d) :
           LET out == execute_agent_action(rules, agents, id, "decision", d,
                                           rnd, hour)
           IN  /\ agents' = out.agents
               /\ event_log' = event_log \cup out.log
               /\ last_result' = out.result
    /\ pc' = "acted"
    /\ UNCHANGED <<subsystem_vars, rules, day, hour, minute, max_days, last_agent_action_time,
                   engine_running, world_running, llm_available, agent_idx,
                   turn_counts, phases, attempts, ticks>>

NextOps ==
    \/ OpAdvance
    \/ OpAction

SpecOps == InitOps /\ [][NextOps]_vars

----------------------------------------------------------------------------
(* The rule engine driven once per tick: the clock advances one hour, then *)
(* execute_rules runs on the advanced world; rules are switched on and off *)
(* through the management API between ticks                                *)

MaxRuleTicks == 2

\* the rules that raise during one call, and where: none, or one rule in its
\* trigger check or in its effect (register_rule accepts any BaseRule)
FaultSets ==
    { {}, {<<"cafeteria_food_supply", "check">>},
      {<<"guard_food_distribution", "effect">>} }

InitRules ==
    /\ rules \in RuleConfigs
    /\ agents = World(rules, Fresh, Fresh, Fresh, << >>, <<2, 3>>)
    /\ llm_available = TRUE
    /\ hour \in {6, 11, 23}
    /\ minute \in {0, 30}
    /\ max_days = 14
    /\ day = 1
    /\ last_agent_action_time = 8
    /\ engine_running = TRUE
    /\ world_running = TRUE
    /\ event_log = {"world_initialized"}
    /\ pc = "rules"
    /\ agent_idx = 0
    /\ turn_counts = [active |-> 0, successful |-> 0]
    /\ phases = << >>
    /\ attempts = 0
    /\ last_result = NoResult
    /\ ticks = 0
    /\ rule_enabled = [rid \in RuleIds |-> TRUE]
    /\ rule_history = << >>
    /\ rule_call = << >>
    /\ map_items = PlaceInitialItems(rules, <<<<7, 14>>, <<2, 2>>, <<6, 6>>>>)
    /\ goal_eval = << >>
    /\ loops = << >>

\* one tick: clock.advance_time(world_state), then
\* rule_engine.execute_rules(world_state)
RuleTick ==
    /\ pc = "rules"
    /\ Len(rule_call) < MaxRuleTicks
    /\ \E adv \in {advance_time(rules, agents, day, hour)} :
         /\ hour' = adv.hour
         /\ day' = adv.day
         /\ event_log' = event_log \cup adv.log
         /\ IF adv.raised
            THEN /\ agents' = adv.agents
                 /\ pc' = "raised"
                 /\ UNCHANGED <<rule_history, rule_call, map_items>>
            ELSE \E faults \in FaultSets :
                 \E run \in {execute_rules(rule_enabled, faults, rules,
                                           adv.agents, map_items, rule_history,
                                           adv.day, adv.hour, minute)} :
                   /\ agents' = run.agents
                   /\ map_items' = run.items
                   /\ rule_history' = run.history
                   /\ rule_call' = Append(rule_call,
                        [day |-> adv.day, hour |-> adv.hour, minute |-> minute,
                         enabled |-> rule_enabled, faults |-> faults,
                         evaluated |-> run.evaluated, invoked |-> run.invoked,
                         events |-> run.events,
                         propagated |-> run.propagated])
                   /\ pc' = IF run.propagated THEN "raised" ELSE pc
    /\ UNCHANGED <<rules, minute, max_days, last_agent_action_time,
                   engine_running, world_running, llm_available, agent_idx,
                   turn_counts, phases, attempts, last_result, ticks,
                   rule_enabled, goal_eval, loops>>

RuleVarsElse ==
    <<rules, agents, day, hour, minute, max_days, last_agent_action_time,
      engine_running, world_running, event_log, llm_available, pc, agent_idx,
      turn_counts, phases, attempts, last_result, ticks, rule_history,
      rule_call, map_items, goal_eval, loops>>

\* POST /rules/{rule_id}/enable -> rule_engine.enable_rule(rule_id)
EnableRule ==
    /\ pc = "rules"
    /\ \E rid \in RuleIds \cup {"ghost"} :
         rule_enabled' = IF rid \in RuleIds
                         THEN [rule_enabled EXCEPT ![rid] = TRUE]
                         ELSE rule_enabled
    /\ UNCHANGED RuleVarsElse

\* POST /rules/{rule_id}/disable -> rule_engine.disable_rule(rule_id)
DisableRule ==
    /\ pc = "rules"
    /\ \E rid \in RuleIds \cup {"ghost"} :
         rule_enabled' = IF rid \in RuleIds
                         THEN [rule_enabled EXCEPT ![rid] = FALSE]
                         ELSE rule_enabled
    /\ UNCHANGED RuleVarsElse

NextRules ==
    \/ RuleTick
    \/ EnableRule
    \/ DisableRule

SpecRules == InitRules /\ [][NextRules]_vars

----------------------------------------------------------------------------
(* The goal system called on a world drawn from the states a run passes    *)
(* through: the decision service asks for the goal of one agent at a time  *)

MaxEvaluations == 2

InitGoals ==
    /\ rules \in RuleConfigs
    /\ \E v1 \in {Fresh, Hurt, Tied, Parched, Starved, Weak},
          v2 \in {Fresh, Hungry},
          pos2 \in {<<2, 3>>, <<6, 12>>},
          s \in {rules.default_relationship_score, 5, 95} :
          agents = World([rules EXCEPT !.default_relationship_score = s],
                         Fresh, v1, v2, << >>, pos2)
    /\ llm_available = TRUE
    /\ hour = 8
    /\ minute = 0
    /\ max_days = 14
    /\ day = 1
    /\ last_agent_action_time = 8
    /\ engine_running = TRUE
    /\ world_running = TRUE
    /\ event_log = {"world_initialized"}
    /\ pc = "goals"
    /\ agent_idx = 0
    /\ turn_counts = [active |-> 0, successful |-> 0]
    /\ phases = << >>
    /\ attempts = 0
    /\ last_result = NoResult
    /\ ticks = 0
    /\ rule_enabled = [rid \in RuleIds |-> TRUE]
    /\ rule_history = << >>
    /\ rule_call = << >>
    /\ \E b \in BookCells : map_items = PlaceInitialItems(rules, b)
    /\ goal_eval = << >>
    /\ loops = << >>

\* _get_hybrid_maslow_goals: maslow_system.evaluate_and_select_goal(agent,
\* world_state) for one agent
EvaluateGoal ==
    /\ pc = "goals"
    /\ Len(goal_eval) < MaxEvaluations
    /\ \E id \in AgentIds :
         \E out \in {evaluate_and_select_goal(rules, agents, map_items, id)} :
           /\ agents' = out.agents
           /\ map_items' = out.items
           /\ goal_eval' = Append(goal_eval,
                [agent |-> id, input |-> <<agents, map_items>>,
                 goals |-> out.goals, selected |-> out.selected,
                 after |-> <<out.agents, out.items>>])
    /\ UNCHANGED <<rules, day, hour, minute, max_days, last_agent_action_time,
                   engine_running, world_running, event_log, llm_available,
                   pc, agent_idx, turn_counts, phases, attempts, last_result,
                   ticks, rule_enabled, rule_history, rule_call, loops>>

NextGoals == EvaluateGoal

SpecGoals == InitGoals /\ [][NextGoals]_vars

----------------------------------------------------------------------------
(* Start and stop requests of the gateway and the start_simulation tasks
   they create: api/websockets.py, core/engine.py. Each task is followed
   from one await to the next; the decisions are do_nothing, and the start
   requests explored arrive while no task is suspended inside a tick *)

MaxLoops == 2

MaxLoopTicks == 2

\* the world World.initialize_world builds
FreshWorld == World(rules, Fresh, Fresh, Fresh, << >>, <<2, 3>>)

\* cells `(random.randint(2, 6), random.randint(2, 12))` can give the second
\* prisoner; the first prisoner's draw is (2, 2)
StartCells == {<<2, 3>>, <<2, 2>>}

InitLoops ==
    /\ rules \in RuleConfigs
    /\ agents = FreshWorld
    /\ llm_available = TRUE
    /\ hour = 8
    /\ minute = 0
    /\ max_days = 14
    /\ day = 1
    /\ last_agent_action_time = 8
    /\ engine_running = FALSE
    /\ world_running = FALSE
    /\ event_log = {"world_initialized"}
    /\ pc = "loops"
    /\ agent_idx = 0
    /\ turn_counts = [active |-> 0, successful |-> 0]
    /\ phases = << >>
    /\ attempts = 0
    /\ last_result = NoResult
    /\ ticks = 0
    /\ SubsystemsInit

LoopVarsElse ==
    <<rules, minute, llm_available, pc, agent_idx, turn_counts, phases,
      attempts, rule_enabled, rule_history, rule_call, goal_eval>>

\* the end-of-turn log lines of _execute_turn (lines 148-156)
EndOfTurnLines(active, successful) ==
    IF active = 0 THEN {"no_active_agents"}
    ELSE IF successful = 0 THEN {"no_successful_actions"}
    ELSE {}

\* ConnectionManager.start_experiment: create_task(start_simulation(...)),
\* and the task up to its first await (`await self._broadcast_state()`)
StartExperiment ==
    /\ pc = "loops"
    /\ ~engine_running
    /\ Len(loops) < MaxLoops
    /\ \A i \in DOMAIN loops : loops[i].pos /= "await_llm"
    /\ \E pos2 \in StartCells :
          agents' = World(rules, Fresh, Fresh, Fresh, << >>, pos2)
    /\ map_items' = PlaceInitialItems(rules, <<<<3, 4>>, <<3, 4>>, <<5, 9>>>>)
    /\ day' = 1
    /\ hour' = 8
    /\ max_days' = 14
    /\ last_agent_action_time' = 8
    /\ event_log' = {"world_initialized"}
    /\ engine_running' = TRUE
    /\ world_running' = TRUE
    /\ loops' = Append(loops, [pos |-> "sleep", idx |-> 0,
                               active |-> 0, successful |-> 0])
    /\ UNCHANGED <<LoopVarsElse, last_result, ticks>>

\* ConnectionManager.stop_experiment
StopRequest ==
    /\ pc = "loops"
    /\ engine_running
    /\ stop_simulation
    /\ UNCHANGED <<LoopVarsElse, agents, map_items, day, hour, max_days,
                   last_agent_action_time, event_log, loops, last_result, ticks>>

\* a task resumes from `await self._broadcast_state()` or from
\* `await asyncio.sleep(...)`: the loop condition, the stopping check and,
\* if the loop goes on, _execute_turn up to its next await
LoopWake(i) ==
    /\ pc = "loops"
    /\ loops[i].pos = "sleep"
    /\ LET reason == should_stop_experiment(agents, day, hour, max_days,
                                            last_agent_action_time)
       IN  IF ~engine_running \/ reason /= "none"
           THEN /\ stop_simulation
                /\ event_log' = event_log \cup
                      (IF engine_running THEN {reason} ELSE {})
                /\ loops' = [loops EXCEPT ![i].pos = "done"]
                /\ UNCHANGED <<agents, day, hour, ticks>>
           ELSE /\ ticks < MaxLoopTicks
                /\ ticks' = ticks + 1
                /\ \E adv \in {advance_time(rules, agents, day, hour)} :
                     LET dead == \A id \in AgentIds : adv.agents[id].hp <= 0
                         n    == NextActor(adv.agents, 1)
                         none == n.idx > Len(SortedAgentIds)
                     IN  /\ hour' = adv.hour
                         /\ day' = adv.day
                         /\ agents' = adv.agents
                         /\ event_log' = event_log \cup adv.log
                              \cup (IF ~adv.raised /\ dead
                                    THEN {"all_incapacitated"} ELSE {})
                              \cup (IF ~adv.raised /\ none
                                    THEN EndOfTurnLines(n.active, 0) ELSE {})
                         /\ loops' = [loops EXCEPT ![i] =
                              IF adv.raised THEN [@ EXCEPT !.pos = "done"]
                              ELSE [pos |-> IF none THEN "sleep" ELSE "await_llm",
                                    idx |-> n.idx, active |-> n.active,
                                    successful |-> 0]]
                /\ UNCHANGED <<engine_running, world_running>>
    /\ UNCHANGED <<LoopVarsElse, map_items, max_days, last_agent_action_time,
                   last_result>>

\* the decision a task awaits returns: the rest of _execute_agent_action and
\* of the loops of _execute_turn up to the next await
LoopDecision(i) ==
    /\ pc = "loops"
    /\ loops[i].pos = "await_llm"
    /\ \E d \in {Plain("do_nothing")} :
         \E rnd \in RandomDraws(rules, d) :
           \E out \in {execute_agent_action(rules, agents,
                          SortedAgentIds[loops[i].idx], "decision", d, rnd, hour)} :
             LET id   == SortedAgentIds[loops[i].idx]
                 ok   == out.result.success
                 real == ok /\ out.result.message \notin LLMErrorMessages
                 stay == ok /\ out.agents[id].action_points > 0
                 n    == NextActor(out.agents, loops[i].idx + 1)
                 none == n.idx > Len(SortedAgentIds)
                 succ == Min(loops[i].successful + (IF real THEN 1 ELSE 0),
                             MaxAttempts)
             IN  /\ agents' = out.agents
                 /\ last_result' = out.result
                 /\ last_agent_action_time' =
                      IF real THEN SimHours(day, hour) ELSE last_agent_action_time
                 /\ event_log' = event_log \cup out.log
                      \cup (IF ~stay /\ none
                            THEN EndOfTurnLines(loops[i].active + n.active, succ)
                            ELSE {})
                 /\ loops' = [loops EXCEPT ![i] =
                      IF stay THEN [@ EXCEPT !.successful = succ]
                      ELSE [pos |-> IF none THEN "sleep" ELSE "await_llm",
                            idx |-> n.idx,
                            active |-> loops[i].active + n.active,
                            successful |-> succ]]
    /\ UNCHANGED <<LoopVarsElse, map_items, day, hour, max_days, engine_running,
                   world_running, ticks>>

NextLoops ==
    \/ StartExperiment
    \/ StopRequest
    \/ \E i \in DOMAIN loops : LoopWake(i)
    \/ \E i \in DOMAIN loops : LoopDecision(i)

SpecLoops == InitLoops /\ [][NextLoops]_vars

----------------------------------------------------------------------------
(* Properties *)

InRange(v) == v \in 0..100

\* C1: after every status advance and after every action, each agent's
\* health, sanity, hunger, thirst and strength and every relationship
\* score are within [0,100]
C1_VitalsAndScoresInRange ==
    \A id \in AgentIds :
        LET a == agents[id]
        IN  /\ InRange(a.hp) /\ InRange(a.sanity) /\ InRange(a.hunger)
            /\ InRange(a.thirst) /\ InRange(a.strength)
            /\ \A o \in DOMAIN a.relationships : InRange(a.relationships[o])

\* an attack has brought its target's health and the target's score for
\* the attacker down to the clamp at 0
C1_Witness ==
    /\ pc = "acted"
    /\ last_result.action_type = "attack"
    /\ last_result.executed /\ last_result.success
    /\ \E t \in AgentIds \ {last_result.agent} :
          agents[t].hp = 0 /\ agents[t].relationships[last_result.agent] = 0

\* C2: an action attempted with action_points below its cost is reported
\* as a failed result and leaves the world state unchanged
C2_InsufficientPointsFail ==
    [][ ( /\ pc = "ops" /\ pc' = "acted"
          /\ last_result'.ap_before < ap_cost(last_result'.action_type) )
        => ( /\ ~last_result'.success
             /\ agents' = agents
             /\ event_log' = event_log ) ]_vars

\* C3: whenever an action's execute does not return success (a failed
\* result or an exception), no agent is changed by the call
C3_AtomicOnFailure ==
    [][ ( /\ pc = "ops" /\ pc' = "acted"
          /\ last_result'.executed
          /\ (last_result'.raised \/ ~last_result'.success) )
        => agents' = agents ]_vars

C5_ActionPointsInRange ==
    \A id \in AgentIds : agents[id].action_points \in 0..3

\* a status advance has run over an agent with health 0
C5_Witness ==
    /\ pc = "raised"
    /\ \E id \in AgentIds :
          /\ agents[id].hp = 0
          /\ \E i \in DOMAIN agents[id].status_tags :
                agents[id].status_tags[i] = "deceased"

\* C6: a tick runs status advance, rule engine, agent actions and publish
\* in that order, the rule engine exactly once, after the status advance
\* and before the first agent action
C6_PhaseOrder ==
    /\ pc \in {"while", "await_llm", "publish"}
          => phases = <<"status", "rules", "actions">>
    /\ pc = "sleep"
          => phases = <<"status", "rules", "actions", "publish">>

\* the action points an agent starts an action phase with, at most
MaxActionPoints == ActionPointsFor(100)

\* C7: each agent's action phase ends after finitely many attempts, also
\* when the decision service is unavailable, raises, returns nothing or
\* returns a decision that fails validation: an attempt either ends the
\* phase or uses up action points, so a phase never starts an attempt
\* after MaxActionPoints attempts
C7_ActionPhaseTerminates ==
    pc \in {"while", "await_llm"} => attempts < MaxActionPoints

\* C8: when the decision service is unavailable, raises or returns
\* nothing, the scheduler executes a locally made decision for the agent
C8_FallbackDecisionExecuted ==
    last_result.source \in {"unavailable", "raised", "empty"}
        => last_result.action_type /= "none" /\ last_result.executed

\* C9: no action is executed for an agent whose health is 0, also when it
\* reached 0 during the agent's own action phase
C9_NoActionAtZeroHealth ==
    last_result.executed => last_result.hp_before > 0

\* C10: an agent whose health is 0 carries the "deceased" tag in every
\* state, also right after the attack that brought the health to 0
C10_DeceasedTagAtZeroHealth ==
    \A id \in AgentIds :
        agents[id].hp = 0 =>
            \E i \in DOMAIN agents[id].status_tags :
                agents[id].status_tags[i] = "deceased"

\* the map contains the cell
InMap(pos) ==
    /\ 0 <= pos[1] /\ pos[1] < rules.map_size[1]
    /\ 0 <= pos[2] /\ pos[2] < rules.map_size[2]

\* C11: after a successful Move, for any requested target, the mover is
\* inside the map and on a cell no other agent is on; a Move that fails
\* because its destination is occupied leaves position and action points
\* (and every agent) as they were
C11_MoveInsideMapAndFree ==
    [][ ( /\ pc = "ops" /\ pc' = "acted"
          /\ last_result'.action_type = "move" /\ last_result'.executed )
        => LET id == last_result'.agent
           IN  IF last_result'.success
               THEN /\ InMap(agents'[id].position)
                    /\ \A o \in AgentIds \ {id} :
                          agents'[o].position /= agents'[id].position
               ELSE agents' = agents ]_vars

\* a Move asked to leave the map on the far side has ended on its border
C11_Witness ==
    /\ pc = "acted" /\ last_result.action_type = "move"
    /\ last_result.success
    /\ last_result.agent = "prisoner_001"
    /\ last_result.decision.xy = <<40, 2>>
    /\ agents["prisoner_001"].position = <<rules.map_size[1] - 1, 2>>

\* C12: a successful Move displaces the agent by a Manhattan distance of at
\* most 8, however far the requested target, and never against the
\* direction of the request: redirect, then clamp, then occupancy
C12_MoveWithinStepBudget ==
    [][ ( /\ pc = "ops" /\ pc' = "acted"
          /\ last_result'.action_type = "move"
          /\ last_result'.executed /\ last_result'.success )
        => LET id  == last_result'.agent
               old == agents[id].position
               new == agents'[id].position
               req == last_result'.decision.xy
           IN  /\ Abs(new[1] - old[1]) + Abs(new[2] - old[2]) <= 8
               /\ (new[1] - old[1]) * (req[1] - old[1]) >= 0
               /\ (new[2] - old[2]) * (req[2] - old[2]) >= 0
               /\ new = MoveClamp(rules, old, MoveRedirect(old, req)) ]_vars

\* a Move to a target 21 cells away has been redirected to a cell 7 away
C12_Witness ==
    /\ pc = "acted" /\ last_result.action_type = "move"
    /\ last_result.success
    /\ last_result.agent = "guard_001"
    /\ last_result.decision.xy = <<8, 15>>
    /\ agents["guard_001"].position = <<3, 6>>

\* the step is a successful Attack taken from the drawn world
AttackStep ==
    /\ pc = "ops" /\ pc' = "acted"
    /\ last_result'.action_type = "attack"
    /\ last_result'.executed /\ last_result'.success

\* C13: every successful Attack computes a damage of at least 1 and lowers
\* the target's health by exactly min(damage, prior health), for every
\* attacker, every accepted target and every roll
C13_AttackDamageExact ==
    [][ AttackStep
        => LET a   == last_result'.agent
               t   == last_result'.decision.target_id
               dmg == AttackDamage(rules, agents[a], agents[t], last_result'.roll)
           IN  /\ dmg >= 1
               /\ agents'[t].hp = agents[t].hp - Min(dmg, agents[t].hp) ]_vars

TemporalRuleIds == {rid \in RuleIds : TriggerHours(rid) /= {}}

Occurs(seq, e) == \E k \in DOMAIN seq : seq[k] = e

Occurrences(seq, e) == Cardinality({k \in DOMAIN seq : seq[k] = e})

\* C15: with the clock advancing one hour per tick and the rules executed
\* once per tick, a time-based rule fires at most once per simulated hour,
\* and only in a state whose hour is one of its trigger hours and whose
\* minute is 0
C15_TemporalRuleOncePerListedHour ==
    \A rid \in TemporalRuleIds :
        /\ \A k \in DOMAIN rule_call :
              /\ Occurrences(rule_call[k].invoked, rid) <= 1
              /\ Occurs(rule_call[k].invoked, rid)
                    => /\ rule_call[k].hour \in TriggerHours(rid)
                       /\ rule_call[k].minute = 0
        /\ \A k, l \in DOMAIN rule_call :
              (/\ k /= l
               /\ rule_call[k].day = rule_call[l].day
               /\ rule_call[k].hour = rule_call[l].hour)
                 => ~(/\ Occurs(rule_call[k].invoked, rid)
                      /\ Occurs(rule_call[l].invoked, rid))
        /\ \A i, j \in DOMAIN rule_history :
              (/\ i /= j
               /\ rule_history[i].rule_id = rid
               /\ rule_history[j].rule_id = rid)
                 => \/ rule_history[i].day /= rule_history[j].day
                    \/ rule_history[i].hour /= rule_history[j].hour

C15_Witness ==
    /\ Len(rule_call) = 2
    /\ rule_call[1].hour = 7
    /\ Occurs(rule_call[1].invoked, "cafeteria_food_supply")
    /\ ~Occurs(rule_call[1].invoked, "guard_food_distribution")
    /\ rule_call[2].hour = 8
    /\ Occurs(rule_call[2].invoked, "guard_food_distribution")
    /\ Len(rule_history) = 2

\* a step that completes one execute_rules call
RuleCallStep == Len(rule_call') = Len(rule_call) + 1

\* C16: a call of execute_rules evaluates exactly the rules enabled when the
\* call is made, each once, in non-increasing priority order, and invokes
\* the effect of no disabled rule; switching a rule off or on at runtime
\* takes effect from the next call
C16_OnlyEnabledByPriority ==
    [][ RuleCallStep =>
          LET c == rule_call'[Len(rule_call')]
          IN  /\ {c.evaluated[k] : k \in DOMAIN c.evaluated}
                   = {rid \in RuleIds : rule_enabled[rid]}
              /\ \A rid \in RuleIds : Occurrences(c.evaluated, rid) <= 1
              /\ \A i, j \in DOMAIN c.evaluated :
                   i < j => RulePriority(c.evaluated[i])
                              >= RulePriority(c.evaluated[j])
              /\ \A k \in DOMAIN c.invoked : rule_enabled[c.invoked[k]]
      ]_vars

C16_Witness ==
    /\ Len(rule_call) = 2
    /\ rule_call[1].hour \in TriggerHours("guard_food_distribution")
    /\ rule_call[1].minute = 0
    /\ rule_call[1].evaluated = <<"cafeteria_food_supply", "food_scarcity">>
    /\ Occurs(rule_call[1].invoked, "cafeteria_food_supply")
    /\ rule_call[2].evaluated = <<"guard_food_distribution", "food_scarcity">>
    /\ rule_enabled = [rid \in RuleIds |-> TRUE]

\* C17: when the trigger check or the effect of a rule raises during
\* execute_rules, the call records an error line for that rule, still
\* evaluates every other enabled rule, and returns to its caller without
\* the exception
C17_RuleFaultIsolated ==
    \A k \in DOMAIN rule_call :
        LET c == rule_call[k]
        IN  /\ ~c.propagated
            /\ \A rid \in RuleIds : c.enabled[rid] => Occurs(c.evaluated, rid)
            /\ \A f \in c.faults :
                 (/\ c.enabled[f[1]]
                  /\ f[2] = "check" \/ Occurs(c.invoked, f[1]))
                    => Occurs(c.events, RuleEvent("rule_error", f[1]))

C17_Witness ==
    /\ pc = "rules"
    /\ Len(rule_call) = 1
    /\ rule_call[1].faults = {<<"cafeteria_food_supply", "check">>}
    /\ rule_call[1].events =
         << RuleEvent("rule_error", "cafeteria_food_supply"),
            RuleEvent("guard_received", "guard_food_distribution") >>
    /\ rule_call[1].evaluated = sorted_rules(rule_call[1].enabled)
    /\ Len(rule_call[1].evaluated) = Len(RuleOrder)

\* the largest score among the candidates of one evaluation
MaxScore(goals) ==
    CHOOSE m \in {goals[k].priority_score : k \in DOMAIN goals} :
        \A k \in DOMAIN goals : goals[k].priority_score <= m

\* C18: the goal selected has the largest score of all candidates of the
\* five tiers together, and among the candidates of that score it is the one
\* generated first
C18_SelectsFirstOfMaximalScore ==
    \A n \in DOMAIN goal_eval :
        LET e == goal_eval[n]
        IN  e.goals /= << >> =>
              \E k \in DOMAIN e.goals :
                 /\ e.selected = e.goals[k]
                 /\ e.goals[k].priority_score = MaxScore(e.goals)
                 /\ \A j \in DOMAIN e.goals :
                      j < k => e.goals[j].priority_score < MaxScore(e.goals)

C18_Witness ==
    \E n \in DOMAIN goal_eval :
        LET e == goal_eval[n]
        IN  /\ e.selected.goal_id = "survival_flee"
            /\ \E k \in DOMAIN e.goals :
                 /\ e.goals[k].goal_id = "safety_food"
                 /\ e.goals[k].priority_score = e.selected.priority_score

\* C19: whenever an evaluation generates a survival-tier candidate, the goal
\* selected is a survival-tier goal
C19_SurvivalCandidateSelected ==
    \A n \in DOMAIN goal_eval :
        LET e == goal_eval[n]
        IN  (\E k \in DOMAIN e.goals :
                e.goals[k].need_level = NeedLevel.SURVIVAL)
              => e.selected.need_level = NeedLevel.SURVIVAL

FoodCells ==
    {map_items[k].pos : k \in {j \in DOMAIN map_items :
                                  CountType(map_items[j].items, "food") > 0}}

\* C21: for a critically hungry agent (hunger above the survival threshold,
\* not thirsty, in full health) with food lying on the map, the goal system
\* returns a survival-tier Move goal of score at least 90 whose target is a
\* cell where food lies
C21_HungryAgentSentToFood ==
    \A n \in DOMAIN goal_eval :
        LET e == goal_eval[n]
            a == e.input[1][e.agent]
        IN  (a.hunger > 85 /\ a.thirst <= 55 /\ a.hp = 100 /\ FoodCells /= {})
              => /\ e.selected.need_level = NeedLevel.SURVIVAL
                 /\ e.selected.action_type = "move"
                 /\ e.selected.priority_score >= 90
                 /\ e.selected.xy \in FoodCells

\* a step in which one call of _execute_agent_action returns to the while
\* loop of the agent whose action phase is open
AttemptStep ==
    /\ pc \in {"while", "await_llm"}
    /\ pc' \in {"while", "publish"}

\* C22: within a tick the agents take their action phases one after another
\* in one fixed order, every guard before every prisoner and by ascending id
\* within a role; the agent acting is the one whose phase is open, and a
\* phase once left is not entered again in the tick
C22_FixedActionOrder ==
    [][ AttemptStep =>
          /\ \A i, j \in DOMAIN SortedAgentIds :
               i < j =>
                 \/ RoleOf(SortedAgentIds[i]) = "Guard"
                      /\ RoleOf(SortedAgentIds[j]) = "Prisoner"
                 \/ RoleOf(SortedAgentIds[i]) = RoleOf(SortedAgentIds[j])
                      /\ LexRank(SortedAgentIds[i]) < LexRank(SortedAgentIds[j])
          /\ last_result'.agent = SortedAgentIds[agent_idx]
          /\ agent_idx' >= agent_idx
          /\ ticks' = ticks
          /\ agent_idx' > agent_idx => attempts' = 0
      ]_vars

C22_Witness ==
    /\ ticks = 2
    /\ pc = "while"
    /\ SortedAgentIds[agent_idx] = "prisoner_002"
    /\ last_result.agent = "prisoner_001"
    /\ last_result.executed
    /\ agents["guard_001"].hp > 0

\* C23: when the action decided for an agent fails its preconditions
\* (can_execute is false, or execute returns a failed result), the agent
\* makes no further attempt in the tick: its action phase is closed and the
\* for loop goes on to the agents after it
C23_FailedActionEndsPhase ==
    [][ (/\ AttemptStep
         /\ last_result'.source = "decision"
         /\ \/ ~last_result'.validated
            \/ last_result'.executed /\ ~last_result'.success /\ ~last_result'.raised)
          => /\ pc' = "publish" \/ agent_idx' > agent_idx
             /\ agents' = agents
      ]_vars

\* C24: once a tick has carried the day past max_days, the stopping check
\* before the next tick halts the run: the check marks engine and world not
\* running and leaves the agents and the clock alone, and no step begins a
\* further tick (no status advance, no agent action of a further tick)
C24_MaxDaysHaltsRun ==
    [][ day > max_days
          => /\ ticks' = ticks
             /\ pc = "check"
                  => /\ pc' = "stopped"
                     /\ ~engine_running' /\ ~world_running'
                     /\ agents' = agents
                     /\ <<day', hour', minute'>> = <<day, hour, minute>>
      ]_vars

C24_Witness ==
    /\ pc = "stopped"
    /\ max_days = 1 /\ day = 2 /\ hour = 0
    /\ ticks = 1
    /\ "ended_max_days" \in event_log
    /\ ~engine_running /\ ~world_running

\* C25: when every agent has been reduced to health 0 within one tick (by
\* the hourly decay or by the actions of that tick), the tick leaves an
\* "all incapacitated" entry in the event log, and the stopping check that
\* follows halts the run before another tick begins
C25_AllIncapacitatedLogged ==
    (/\ ticks >= 1
     /\ \A id \in AgentIds : agents[id].hp <= 0
     /\ pc \in {"publish", "sleep", "check", "stopped"})
      => /\ "all_incapacitated" \in event_log
         /\ pc = "stopped" => "ended_all_dead" \in event_log \/ ~engine_running

\* C26: the time of the last successful action is refreshed only by an
\* attempt in which an action was really executed and succeeded; a skipped
\* turn or a failed decision leaves it alone, so that 24 in-sim hours
\* without a real action are noticed by the stopping check
C26_StallClockOnlyRealActions ==
    [][ last_agent_action_time' /= last_agent_action_time
          => /\ last_result'.executed
             /\ last_result'.success
             /\ last_result'.message /= SkipMessage
      ]_vars

\* C27: stop is idempotent and does not interrupt a tick. The step that
\* stops a running engine clears both running flags and changes nothing
\* else, so the tick in progress goes on from where it was; once the engine
\* is marked not running, a further stop_simulation (the one the loop makes
\* on its way out) leaves engine and world as the first one left them, the
\* loop ends only at its next check, and no further tick begins
C27_StopIdempotentAtNextCheck ==
    [][ /\ (engine_running /\ ~engine_running' /\ pc /= "check")
            => /\ ~world_running'
               /\ pc' = pc
               /\ <<agents', day', hour', minute', event_log', ticks', agent_idx'>>
                    = <<agents, day, hour, minute, event_log, ticks, agent_idx>>
        /\ ~engine_running
            => /\ ~engine_running' /\ ~world_running'
               /\ ticks' = ticks
               /\ pc' = "stopped" <=> pc = "check"
               /\ pc = "check"
                    => <<agents', day', hour', minute', event_log'>>
                         = <<agents, day, hour, minute, event_log>>
      ]_vars

C27_Witness ==
    /\ pc = "stopped"
    /\ ~engine_running /\ ~world_running
    /\ ticks = 1
    /\ last_result.executed
    /\ event_log \cap {"ended_max_days", "ended_all_dead", "ended_stall"} = {}
    /\ \E id \in AgentIds : agents[id].hp > 0

\* C28: once stop has marked the engine and the world not running, the
\* result of a decision call that was still in flight is not applied: no
\* step changes the agents while the run is marked not running
C28_NoActionAfterStop ==
    [][ (~engine_running /\ ~world_running) => agents' = agents ]_vars

\* the number of slots of one inventory that hold the item iid
InvCount(inv, iid) == Cardinality({i \in DOMAIN inv : inv[i].item_id = iid})

\* the number of containers' slots (inventories and map cells) holding iid
Holders(ag, m, iid) ==
    Cardinality({p \in UNION {{<<id, i>> : i \in DOMAIN ag[id].inventory} :
                                id \in DOMAIN ag} :
                   ag[p[1]].inventory[p[2]].item_id = iid})
      + Cardinality({p \in UNION {{<<k, i>> : i \in DOMAIN m[k].items} :
                                    k \in DOMAIN m} :
                       m[p[1]].items[p[2]].item_id = iid})

HeldItemIds(ag, m) ==
    UNION {{ag[id].inventory[i].item_id : i \in DOMAIN ag[id].inventory} :
             id \in DOMAIN ag}
      \cup UNION {{m[k].items[i].item_id : i \in DOMAIN m[k].items} :
                    k \in DOMAIN m}

ItemsExclusive ==
    \A iid \in HeldItemIds(agents, map_items) : Holders(agents, map_items, iid) = 1

\* C29: every item is held by exactly one container (one inventory or one
\* map cell) in every state, and a give or a steal that was executed moves
\* the item: it leaves the source inventory and enters the destination
\* inventory, also when the target is the actor itself, and no item is
\* duplicated or lost
C29_ItemsMoveNeverCopy ==
    [][ /\ ItemsExclusive /\ ItemsExclusive'
        /\ LET r   == last_result'
               src == r.agent
               t   == r.decision.target_id
               ids == HeldItemIds(agents, map_items)
           IN  (/\ pc = "ops" /\ pc' = "acted"
                /\ r.executed /\ r.success
                /\ r.action_type \in {"give_item", "steal_item"})
                 => /\ HeldItemIds(agents', map_items') = ids
                    /\ \A iid \in ids :
                         Holders(agents', map_items', iid) = Holders(agents, map_items, iid)
                    /\ r.action_type = "give_item"
                         => /\ InvCount(agents[src].inventory, r.decision.item_id) = 1
                            /\ InvCount(agents'[t].inventory, r.decision.item_id) = 1
                            /\ t /= src
                                 => InvCount(agents'[src].inventory, r.decision.item_id) = 0
                            /\ \A a \in AgentIds \ {src, t} :
                                 agents'[a].inventory = agents[a].inventory
                    /\ r.action_type = "steal_item"
                         => /\ \A iid \in ids :
                                 InvCount(agents'[src].inventory, iid)
                                   >= InvCount(agents[src].inventory, iid)
                            /\ Len(agents[t].inventory) - Len(agents'[t].inventory)
                                 \in {0, 1}
                            /\ \A a \in AgentIds \ {src, t} :
                                 agents'[a].inventory = agents[a].inventory
      ]_vars

C29_Witness ==
    /\ pc = "acted"
    /\ last_result.action_type = "give_item"
    /\ last_result.executed /\ last_result.success
    /\ last_result.decision.target_id = last_result.agent
    /\ last_result.agent = "prisoner_001"
    /\ last_result.decision.item_id = Spoon.item_id
    /\ agents["prisoner_001"].inventory = <<Food, Water, Book, Spoon>>

C31_DecayOnlyForLiving ==
    [][ (pc = "ops" /\ pc' \in {"advanced", "raised"})
          => \A id \in AgentIds :
               agents[id].hp = 0
                 => /\ agents'[id].hunger = agents[id].hunger
                    /\ agents'[id].thirst = agents[id].thirst
                    /\ agents'[id].hp = agents[id].hp
                    /\ agents'[id].sanity = agents[id].sanity
      ]_vars

\* C32: the advance in which an agent's health goes from above 0 to 0
\* records a death event for it, and an advance that takes no agent from
\* above 0 to 0 records none
C32_DeathRecordedOnce ==
    [][ (pc = "ops" /\ pc' \in {"advanced", "raised"})
          => LET died == {id \in AgentIds : agents[id].hp > 0 /\ agents'[id].hp = 0}
             IN  /\ died /= {} => "death" \in event_log'
                 /\ died = {} => "death" \notin event_log'
      ]_vars

\* C33: after each advance every living agent's action_points are those of
\* its health after the decay: 3 for health 76..100, 2 for 51..75, 1 for
\* 26..50 and 0 for 1..25, whatever was left from the tick before
C33_ActionPointsFromHealth ==
    [][ (pc = "ops" /\ pc' \in {"advanced", "raised"})
          => \A id \in AgentIds :
               LET a == agents'[id]
               IN  a.hp > 0
                     => a.action_points = (IF a.hp >= 76 THEN 3
                                           ELSE IF a.hp >= 51 THEN 2
                                           ELSE IF a.hp >= 26 THEN 1 ELSE 0)
      ]_vars

\* C34: in every state the hour is within 0..23 and the minute is 0; each
\* advance adds exactly one hour, from hour 23 it sets the hour to 0 and
\* raises the day by exactly 1; no other step touches the clock, and the
\* day never decreases
C34_ClockAdvancesOneHour ==
    [][ /\ hour \in 0..23 /\ hour' \in 0..23
        /\ minute = 0 /\ minute' = 0
        /\ day' >= day
        /\ IF pc = "turn"
           THEN /\ hour' = (hour + 1) % 24
                /\ day' = IF hour = 23 THEN day + 1 ELSE day
           ELSE /\ hour' = hour
                /\ day' = day
      ]_vars

C34_Witness ==
    /\ day = 2 /\ hour = 0 /\ minute = 0
    /\ ticks = 1
    /\ pc = "while"
    /\ "day_begins" \in event_log

\* C35: in one advance an agent loses no health when its hunger is at most
\* 80 and its thirst at most 75 (the values the decay tests, after the
\* hourly increase), at most 15 to hunger and at most 20 to thirst, hence
\* at most 35 in all; a higher hunger or thirst never gives a smaller
\* penalty, and the health stays at or above 0
C35_DecayDamageCapped ==
    [][ (pc = "ops" /\ pc' \in {"advanced", "raised"})
          => \A id \in AgentIds :
               LET loss == agents[id].hp - agents'[id].hp
                   h    == agents'[id].hunger
                   t    == agents'[id].thirst
               IN  /\ agents'[id].hp >= 0
                   /\ 0 <= loss /\ loss <= 35
                   /\ h <= 80 => loss <= 20
                   /\ t <= 75 => loss <= 15
                   /\ (h <= 80 /\ t <= 75) => loss = 0
                   /\ loss <= HpPenalty(h, t)
                   /\ \A h2 \in h..100, t2 \in t..100 :
                        HpPenalty(h2, t2) >= HpPenalty(h, t)
      ]_vars

\* one agent has paid for its hunger alone (98 after the increase: 8 of its
\* 100 health) and another for its thirst alone
C35_Witness ==
    /\ pc = "advanced"
    /\ agents["prisoner_002"].hunger = 98 /\ agents["prisoner_002"].thirst <= 75
    /\ agents["prisoner_002"].hp = 92
    /\ agents["prisoner_001"].hunger <= 80 /\ agents["prisoner_001"].thirst > 75
    /\ agents["prisoner_001"].hp \in 1..79

\* C36: the status advance completes without raising in every reachable
\* state, also when some agent has health 0 (killed by this advance or in
\* an earlier tick): the tick goes on to its action phase and the run loop
\* is never aborted
C36_AdvanceNeverAborts ==
    [][ pc = "turn" => (pc' \in {"while", "publish"} /\ pc' /= "crashed") ]_vars

\* C37: at most one tick loop is active on the world, for every
\* interleaving of start and stop requests: a task begins a tick only when
\* every other task that was created has ended
C37_SingleTickLoop ==
    [][ \A i \in DOMAIN loops :
          (ticks' = ticks + 1 /\ loops'[i] /= loops[i])
            => \A j \in DOMAIN loops \ {i} : loops[j].pos = "done"
      ]_vars

\* the in-sim hours left until the day exceeds max_days by a full day
RunBudget == (max_days + 1) * 24 - SimHours(day, hour)

\* C38: every run whose ticks complete reaches the stopped state. The hours
\* left in the run never grow and every tick takes exactly one of them; a
\* tick begins only while some are left, the check ends the loop once the
\* day has passed max_days, and a loop that has ended has marked the run
\* not running
C38_RunEndsWithinBudget ==
    [][ /\ RunBudget' <= RunBudget
        /\ pc = "turn" => RunBudget' = RunBudget - 1
        /\ ticks' /= ticks
             => /\ ticks' = ticks + 1 /\ pc' = "turn"
                /\ RunBudget > 24
        /\ (pc = "check" /\ RunBudget <= 24) => pc' = "stopped"
        /\ pc' = "stopped" => ~engine_running' /\ ~world_running'
      ]_vars

C38_Witness ==
    /\ pc = "stopped"
    /\ ~engine_running /\ ~world_running
    /\ day > max_days /\ RunBudget = 24
    /\ "ended_max_days" \in event_log
    /\ last_result.executed /\ last_result.success
    /\ \E id \in AgentIds : agents[id].hp > 0

\* C39: no status advance and no action of any kind raises an agent's
\* health: over every step the health of every agent stays or falls, so an
\* agent whose health has reached 0 stays at 0
C39_HealthNeverRises ==
    [][ \A id \in AgentIds :
          /\ agents'[id].hp <= agents[id].hp
          /\ agents'[id].hp >= 0
          /\ agents[id].hp = 0 => agents'[id].hp = 0
      ]_vars

\* an attack on an agent that was dead before it: the target stays at 0 and
\* the attacker has paid the recoil
C39_Witness ==
    /\ pc = "acted"
    /\ last_result.action_type = "attack"
    /\ last_result.executed /\ last_result.success
    /\ last_result.agent = "prisoner_001"
    /\ last_result.decision.target_id = "guard_001"
    /\ agents["guard_001"].hp = 0
    /\ agents["guard_001"].sanity = 30
    /\ agents["prisoner_001"].hp \in 1..99
    /\ last_result.hp_before > agents["prisoner_001"].hp

\* C40: in every state, from the initialisation of the world on, no two
\* agents stand on the same grid cell
C40_OneAgentPerCell ==
    engine_running
      => \A a, b \in AgentIds :
           a /= b => agents[a].position /= agents[b].position

====
